---- MODULE Spec2Model ----
(***************************************************************************)
(* LexiForge: an Anki add-on that fills vocabulary notes with AI-generated *)
(* definitions, examples and pronunciation audio, and generates reading    *)
(* stories from studied words.                                             *)
(*                                                                         *)
(* Texts are sequences of one-character strings; Txt("abc") writes one.      *)
(***************************************************************************)
EXTENDS Naturals, Integers, Sequences, FiniteSets, TLC

\* ------------------------------------------------------------------ text

\* the text of a string literal: the sequence of its characters
Txt(str) == [i \in 1..Len(str) |-> SubSeq(str, i, i)]

Char(s, i) == s[i]

Range(f) == {f[i] : i \in DOMAIN f}

Min(S) == CHOOSE m \in S : \A k \in S : m <= k

UpperLetters == Txt("ABCDEFGHIJKLMNOPQRSTUVWXYZ")

LowerLetters == Txt("abcdefghijklmnopqrstuvwxyz")

Digits == Txt("0123456789")

CharsOf(s) == {Char(s, i) : i \in 1..Len(s)}

SpaceChars == {" ", "\n", "\t"}

AlnumChars == CharsOf(UpperLetters) \cup CharsOf(LowerLetters) \cup CharsOf(Digits)

UpperChars == CharsOf(UpperLetters)

LowerOf ==
    [c \in UpperChars |->
        LowerLetters[CHOOSE k \in 1..Len(UpperLetters) : UpperLetters[k] = c]]

\* str.isspace() on the characters the model uses
IsSpace(c) == c \in SpaceChars

\* str.isalnum() on the characters the model uses
IsAlnum(c) == c \in AlnumChars

\* str.lower() of one character
LowerChar(c) == IF c \in UpperChars THEN LowerOf[c] ELSE c

\* str.lower()
Lower(s) == [i \in 1..Len(s) |-> LowerChar(s[i])]

\* str.strip(): leading and trailing whitespace removed
Strip(s) ==
    LET keep == {i \in 1..Len(s) : ~IsSpace(Char(s, i))}
    IN  IF keep = {} THEN <<>>
        ELSE SubSeq(s, Min(keep), CHOOSE m \in keep : \A k \in keep : k <= m)

\* `sub in s`
Contains(s, sub) ==
    \E i \in 1..(Len(s) + 1) :
        i + Len(sub) - 1 <= Len(s) /\ SubSeq(s, i, i + Len(sub) - 1) = sub

\* str.replace(ch, "") for a one-character ch
RemoveChar(s, ch) == SelectSeq(s, LAMBDA c : c # ch)

\* None: no text holds a four-character element, so it differs from every text
NoneValue == <<"None">>

\* `not s` for an optional string: None or the empty string
Falsy(s) == s = NoneValue \/ s = <<>>

\* ------------------------------------------------------- language table

LANGUAGE_NAMES_TABLE ==
    {"English", "Mandarin Chinese", "Hindi", "Spanish", "French", "Arabic",
     "Bengali", "Russian", "Portuguese", "Urdu", "Indonesian", "German",
     "Japanese", "Turkish", "Korean", "Vietnamese", "Italian", "Tamil",
     "Thai", "Polish"}

LanguageCodes ==
    [n \in LANGUAGE_NAMES_TABLE |->
        CASE n = "English" -> "en"
          [] n = "Mandarin Chinese" -> "zh-CN"
          [] n = "Hindi" -> "hi"
          [] n = "Spanish" -> "es"
          [] n = "French" -> "fr"
          [] n = "Arabic" -> "ar"
          [] n = "Bengali" -> "bn"
          [] n = "Russian" -> "ru"
          [] n = "Portuguese" -> "pt-BR"
          [] n = "Urdu" -> "ur"
          [] n = "Indonesian" -> "id"
          [] n = "German" -> "de"
          [] n = "Japanese" -> "ja"
          [] n = "Turkish" -> "tr"
          [] n = "Korean" -> "ko"
          [] n = "Vietnamese" -> "vi"
          [] n = "Italian" -> "it"
          [] n = "Tamil" -> "ta"
          [] n = "Thai" -> "th"
          [] n = "Polish" -> "pl"]

\* the table as a dict from display-name text to code text
SUPPORTED_LANGUAGES ==
    [t \in {Txt(n) : n \in LANGUAGE_NAMES_TABLE} |->
        Txt(LanguageCodes[CHOOSE n \in LANGUAGE_NAMES_TABLE : Txt(n) = t])]

DefaultLangCode == Txt("en")

\* the lookup done without regard to letter case
get_lang_code_folded(language_name) ==
    LET same == {t \in DOMAIN SUPPORTED_LANGUAGES : Lower(t) = Lower(language_name)}
    IN  IF same # {} THEN SUPPORTED_LANGUAGES[CHOOSE t \in same : TRUE]
        ELSE DefaultLangCode

\* SUPPORTED_LANGUAGES.get(language_name, "en"): an exact, case-sensitive lookup
get_lang_code(language_name) ==
    IF language_name \in DOMAIN SUPPORTED_LANGUAGES
    THEN SUPPORTED_LANGUAGES[language_name]
    ELSE DefaultLangCode

\* ------------------------------------------------------ parse_response

\* re.search(label + r"\s*(.+)", text, re.IGNORECASE): the captured group of
\* the leftmost match, or NoneValue when nothing matches.  \s* is greedy and
\* crosses newlines; "." matches everything but "\n"; when the whitespace run
\* reaches the end of the text, \s* backtracks to its last non-newline
\* character, which the group then holds.
LabelAt(text, label, i) ==
    /\ i + Len(label) - 1 <= Len(text)
    /\ \A k \in 1..Len(label) : LowerChar(text[i + k - 1]) = LowerChar(label[k])

\* first index at or after j that holds a non-whitespace character (Len+1 if none)
SkipSpace(text, j) ==
    Min({k \in j..(Len(text) + 1) : k = Len(text) + 1 \/ ~IsSpace(Char(text, k))})

\* index where the group (.+) starts for a label ending right before j, 0 if no match
GroupStart(text, j) ==
    LET m == SkipSpace(text, j)
        back == {k \in j..(m - 1) : Char(text, k) # "\n"}
    IN  IF m <= Len(text) THEN m
        ELSE IF back = {} THEN 0
        ELSE CHOOSE k \in back : \A k2 \in back : k2 <= k

\* the group runs to the end of its line
GroupEnd(text, s) ==
    Min({k \in s..Len(text) : k = Len(text) \/ Char(text, k + 1) = "\n"})

SearchLabel(text, label) ==
    LET hits == {i \in 1..Len(text) :
                    LabelAt(text, label, i) /\ GroupStart(text, i + Len(label)) # 0}
    IN  IF hits = {} THEN NoneValue
        ELSE LET s == GroupStart(text, Min(hits) + Len(label))
             IN  SubSeq(text, s, GroupEnd(text, s))

ParseField(text, label) ==
    LET g == SearchLabel(text, label)
    IN  IF g = NoneValue THEN <<>> ELSE Strip(g)

LabelBaseForm == Txt("BASE_FORM:")

LabelDefinition == Txt("DEFINITION:")

LabelExample == Txt("EXAMPLE:")

RECURSIVE Replace(_, _, _)
\* s.replace(old, new) for a non-empty old: the non-overlapping occurrences,
\* found from the left
Replace(s, old, new) ==
    LET hits == {i \in 1..(Len(s) - Len(old) + 1) : SubSeq(s, i, i + Len(old) - 1) = old}
    IN  IF hits = {} THEN s
        ELSE SubSeq(s, 1, Min(hits) - 1) \o new
                \o Replace(SubSeq(s, Min(hits) + Len(old), Len(s)), old, new)

\* text.replace("**", "") alone
StripMarkdownBoldOnly(text) == Replace(text, Txt("**"), <<>>)

\* text.replace("**", "").replace("*", "")
StripMarkdown(text) == Replace(Replace(text, Txt("**"), <<>>), Txt("*"), <<>>)

\* returns (definition, example, base_form)
parse_response(text) ==
    LET t == StripMarkdown(text)
    IN  [definition |-> ParseField(t, LabelDefinition),
         example    |-> ParseField(t, LabelExample),
         base_form  |-> ParseField(t, LabelBaseForm)]

\* ------------------------------------------------------------- dicts

\* dict.get(key, default) on a dict modelled as a function over its keys
DictGet(d, key, default) == IF key \in DOMAIN d THEN d[key] ELSE default

\* the empty dict
EmptyDict == <<>>

\* ------------------------------------------------------------- notes
\* A note is the sequence of its fields in note-type order, each a record
\* [name, value]; note.keys() is the sequence of the names.

NoteKeys(note) == [i \in 1..Len(note) |-> note[i].name]

\* `field in note`
NoteHas(note, field) == \E i \in 1..Len(note) : note[i].name = field

\* note[field]
NoteGet(note, field) ==
    note[CHOOSE i \in 1..Len(note) : note[i].name = field].value

\* note[field] = value
NoteSet(note, field, value) ==
    [i \in 1..Len(note) |->
        IF note[i].name = field THEN [name |-> field, value |-> value] ELSE note[i]]

\* editor.note is None: the id of no note
NoNote == 0

\* get_field_mapping taking the configured names for every note
get_field_mapping_configured(note, config) ==
    LET field_mapping == DictGet(config, "field_mapping", EmptyDict)
    IN  [word_field |-> DictGet(field_mapping, "word_field", "Front"),
         def_field  |-> DictGet(field_mapping, "definition_field", "Back"),
         ex_field   |-> DictGet(field_mapping, "example_field", "Back")]

\* get_field_mapping(note, config): (word_field, def_field, ex_field)
get_field_mapping(note, config) ==
    LET fields == NoteKeys(note)
        field_mapping == DictGet(config, "field_mapping", EmptyDict)
    IN  IF Len(fields) = 2
        THEN [word_field |-> fields[1], def_field |-> fields[2], ex_field |-> fields[2]]
        ELSE [word_field |-> DictGet(field_mapping, "word_field", "Front"),
              def_field  |-> DictGet(field_mapping, "definition_field", "Back"),
              ex_field   |-> DictGet(field_mapping, "example_field", "Back")]

\* the validation without the test of the word's value
ValidationMessageNoWordTest(hasNote, note, conf, m) ==
    LET missing == {f \in {m.word_field, m.def_field, m.ex_field} : ~NoteHas(note, f)}
    IN  IF ~hasNote THEN Txt("Please select a note.")
        ELSE IF DOMAIN conf = {}
        THEN Txt("Configuration not found. Please check config.json.")
        ELSE IF missing # {}
        THEN Txt("Error: The following fields are missing in this note type")
        ELSE NoneValue

\* _validate_note_and_config: the message shown by showInfo, NoneValue when
\* the note and configuration pass.  The missing-fields message is kept to
\* its fixed head.
ValidationMessage(hasNote, note, conf, m) ==
    LET missing == {f \in {m.word_field, m.def_field, m.ex_field} : ~NoteHas(note, f)}
    IN  IF ~hasNote THEN Txt("Please select a note.")
        ELSE IF DOMAIN conf = {}
        THEN Txt("Configuration not found. Please check config.json.")
        ELSE IF missing # {}
        THEN Txt("Error: The following fields are missing in this note type")
        ELSE IF NoteGet(note, m.word_field) = <<>>
        THEN Txt("Please enter a word in the field.")
        ELSE NoneValue

_validate_note_and_config(hasNote, note, conf, m) ==
    ValidationMessage(hasNote, note, conf, m) = NoneValue

\* -------------------------------------------------------------- JSON
\* A decoded JSON value is a record [t, v]: t is its Python type ("dict",
\* "list", "str", "null"), v its content (a function over the keys, a
\* sequence, a text).  Subscripting gives a value or raises; the result is
\* [exc, val], exc = "" when nothing is raised.

JNull == [t |-> "null", v |-> <<>>]

JStr(text) == [t |-> "str", v |-> text]

JList(seq) == [t |-> "list", v |-> seq]

JDict(f) == [t |-> "dict", v |-> f]

Ok(val) == [exc |-> "", val |-> val]

Raise(exc) == [exc |-> exc, val |-> JNull]

\* j[key] for a string key
GetKey(j, key) ==
    IF j.t = "dict"
    THEN IF key \in DOMAIN j.v THEN Ok(j.v[key]) ELSE Raise("KeyError")
    ELSE Raise("TypeError")

\* j[0]
GetFirst(j) ==
    CASE j.t = "dict" -> Raise("KeyError")
      [] j.t = "list" -> IF Len(j.v) > 0 THEN Ok(j.v[1]) ELSE Raise("IndexError")
      [] j.t = "str"  -> IF Len(j.v) > 0 THEN Ok(JStr(<<j.v[1]>>)) ELSE Raise("IndexError")
      [] OTHER        -> Raise("TypeError")

\* r, then f applied to its value unless r raised
Then(r, f(_)) == IF r.exc # "" THEN r ELSE f(r.val)

\* result["candidates"][0]["content"]["parts"][0]["text"]
StoryTextOf(result) ==
    LET c1 == GetKey(result, "candidates")
        c2 == Then(c1, GetFirst)
        c3 == Then(c2, LAMBDA j : GetKey(j, "content"))
        c4 == Then(c3, LAMBDA j : GetKey(j, "parts"))
        c5 == Then(c4, GetFirst)
    IN  Then(c5, LAMBDA j : GetKey(j, "text"))

\* `not j` for a decoded value
JFalsy(j) == j.t = "null" \/ DOMAIN j.v = {}

\* j.get(key): None for a missing key; only a dict has .get
JGet(j, key) ==
    IF j.t = "dict"
    THEN Ok(IF key \in DOMAIN j.v THEN j.v[key] ELSE JNull)
    ELSE Raise("AttributeError")

\* the checked extraction of generate_content (ai_client.py 114-127)
AnalysisTextOf(result) ==
    LET candidates == JGet(result, "candidates")
    IN  IF candidates.exc # "" THEN candidates
        ELSE IF JFalsy(candidates.val) \/ candidates.val.t # "list" THEN Raise("KeyError")
        ELSE LET content == JGet(candidates.val.v[1], "content")
             IN  IF content.exc # "" THEN content
                 ELSE IF JFalsy(content.val) \/ content.val.t # "dict" THEN Raise("KeyError")
                 ELSE LET parts == JGet(content.val, "parts")
                      IN  IF JFalsy(parts.val) \/ parts.val.t # "list" THEN Raise("KeyError")
                          ELSE LET text == JGet(parts.val.v[1], "text")
                               IN  IF text.exc # "" THEN text
                                   ELSE IF text.val.t = "null" THEN Raise("KeyError")
                                   ELSE IF text.val.t # "str" THEN Raise("AttributeError")
                                   ELSE text

\* the well-formed response body carrying `text`
FullResponse(text) ==
    JDict([candidates |-> JList(<<
        JDict([content |-> JDict([parts |-> JList(<<JDict([text |-> JStr(text)])>>)])])
    >>)])

\* Response bodies the generative endpoint can answer with, by shape
ResponseShapes ==
    {"full", "error_only", "no_candidates", "no_content", "no_parts", "no_text",
     "null_candidates", "array"}

ResponseBody(shape, text) ==
    CASE shape = "full" -> FullResponse(text)
      [] shape = "error_only" -> JDict([error |-> JStr(Txt("quota"))])
      [] shape = "no_candidates" ->
            JDict([candidates |-> JList(<<>>), promptFeedback |-> JStr(Txt("SAFETY"))])
      [] shape = "no_content" ->
            JDict([candidates |-> JList(<<JDict([finishReason |-> JStr(Txt("SAFETY"))])>>)])
      [] shape = "no_parts" ->
            JDict([candidates |-> JList(<<
                JDict([content |-> JDict([role |-> JStr(Txt("model"))])])>>)])
      [] shape = "no_text" ->
            JDict([candidates |-> JList(<<
                JDict([content |-> JDict([parts |-> JList(<<
                    JDict([inlineData |-> JStr(Txt("x"))])>>)])])>>)])
      [] shape = "null_candidates" -> JDict([candidates |-> JNull])
      [] shape = "array" -> JList(<<>>)

\* ------------------------------------------------------ HTTP outcomes
\* What urlopen and the reads after it can do for one request:
\*   [kind |-> "ok", shape, text]          a 2xx answer with a JSON body
\*   [kind |-> "http_error", code, utf8]   HTTPError; utf8: the error body decodes
\*   [kind |-> "url_error"]                URLError (no connection)
\*   [kind |-> "exception"]                anything else (timeout, invalid JSON)
\* log_ok: a write to the error log file, should one be made, succeeds

NoOutcome ==
    [kind |-> "", shape |-> "", text |-> <<>>, code |-> <<>>, utf8 |-> TRUE, log_ok |-> TRUE]

HttpOk(shape, text) == [NoOutcome EXCEPT !.kind = "ok", !.shape = shape, !.text = text]

HttpError(code, utf8) == [NoOutcome EXCEPT !.kind = "http_error", !.code = code, !.utf8 = utf8]

UrlError == [NoOutcome EXCEPT !.kind = "url_error"]

OtherException == [NoOutcome EXCEPT !.kind = "exception"]

\* an HTTP request the add-on issues: its endpoint and, for the speech
\* endpoint, the q and tl query parameters
Req(kind) == [kind |-> kind, q |-> <<>>, tl |-> <<>>]

\* ---------------------------------------------------- generate_content

AnalysisTuple(definition, example, base_form) ==
    [definition |-> definition, example |-> example, base_form |-> base_form]

\* ------------------------------------- generate_content: the prompt

TokenWord == Txt("{{word}}")

TokenSourceLang == Txt("{{source_lang}}")

TokenDefinitionLang == Txt("{{definition_lang}}")

\* the text of a placeholder
TokenText(tok) ==
    CASE tok = "word" -> TokenWord
      [] tok = "source_lang" -> TokenSourceLang
      [] OTHER -> TokenDefinitionLang

Lit(text) == [tok |-> "", lit |-> text]

Tok(name) == [tok |-> name, lit |-> <<>>]

\* get_default_prompt_template() as its literal pieces and placeholders.
\* The nine placeholders stand in the order of the source; the literal text
\* between them is shortened and the typographic quotes are written '.
DefaultTemplateSegments ==
    <<Lit(Txt("Analyze the word '")), Tok("word"), Lit(Txt("' in ")), Tok("source_lang"),
      Lit(Txt(".\n2. Translate into ")), Tok("definition_lang"),
      Lit(Txt(":\n- one word in ")), Tok("definition_lang"),
      Lit(Txt("\n- or in ")), Tok("definition_lang"),
      Lit(Txt(" plus a definition\n3. Give 1 example in ")), Tok("source_lang"),
      Lit(Txt("\nBASE_FORM: [base form in ")), Tok("source_lang"),
      Lit(Txt("]\nDEFINITION: [in ")), Tok("definition_lang"),
      Lit(Txt("]\nEXAMPLE: [sentence in ")), Tok("source_lang"),
      Lit(Txt("]\nDo not use markdown formatting."))>>

\* the head of the line generate_content puts before the template for Auto
DetectionHead == Txt("First, detect the language of the word '")

\* that line: f"First, detect ... '{{{{word}}}}' and use that language as {{{{source_lang}}}}.\n"
AutoPrefixSegments ==
    <<Lit(DetectionHead), Tok("word"), Lit(Txt("' and use that language as ")),
      Tok("source_lang"), Lit(Txt(".\n"))>>

RECURSIVE TemplateText(_)
\* the template text of the pieces: placeholders as their {{...}} text
TemplateText(segs) ==
    IF segs = <<>> THEN <<>>
    ELSE (IF segs[1].tok = "" THEN segs[1].lit ELSE TokenText(segs[1].tok))
            \o TemplateText(Tail(segs))

get_default_prompt_template == TemplateText(DefaultTemplateSegments)

DetectedLanguage == Txt("the detected language")

\* source_lang == "Auto", the letter case observed
IsAutoExact(source_lang) == source_lang = Txt("Auto")

\* source_lang.lower() == "auto"
IsAuto(source_lang) == Lower(source_lang) = Txt("auto")

\* the prompt generate_content renders (ai_client.py 83-95) from the
\* default template
render_prompt(word, source_lang, definition_lang) ==
    LET prompt_template ==
            IF IsAuto(source_lang)
            THEN TemplateText(AutoPrefixSegments) \o get_default_prompt_template
            ELSE get_default_prompt_template
        actual_source == IF IsAuto(source_lang) THEN DetectedLanguage ELSE source_lang
    IN  Replace(Replace(Replace(prompt_template, TokenWord, word),
                        TokenSourceLang, actual_source),
                TokenDefinitionLang, definition_lang)

\* generate_content repeating its request once after a network failure
generate_content_retry(word, source_lang, api_key, out) ==
    [raised |-> "",
     requests |-> IF out.kind = "url_error"
                  THEN <<Req("generateContent"), Req("generateContent")>>
                  ELSE <<Req("generateContent")>>,
     ret |-> AnalysisTuple(Txt("Network Error: unreachable"), <<>>, word)]

\* generate_content(word, source_lang, api_key, ...) under the outcome `out`
\* of its generateContent request: [raised, ret, requests].  raised names the
\* exception that leaves the function ("" when it returns), requests lists
\* the HTTP requests it issued, in order.
generate_content(word, source_lang, api_key, out) ==
    LET call == <<Req("generateContent")>>
        got == AnalysisTextOf(ResponseBody(out.shape, out.text))
    IN  IF Falsy(api_key) \/ Strip(api_key) = <<>>
        THEN [raised |-> "ValueError", ret |-> AnalysisTuple(<<>>, <<>>, <<>>),
              requests |-> <<>>]
        ELSE IF out.kind = "ok"
        THEN [raised |-> "", requests |-> call,
              ret |-> IF got.exc = "" THEN parse_response(got.val.v)
                      ELSE IF got.exc \in {"KeyError", "IndexError", "TypeError"}
                      THEN AnalysisTuple(Txt("Error parsing AI response"), <<>>, word)
                      ELSE AnalysisTuple(Txt("Error: ") \o Txt(got.exc), <<>>, word)]
        ELSE IF out.kind = "http_error"
        THEN IF ~out.utf8
             THEN [raised |-> "UnicodeDecodeError", requests |-> call,
                   ret |-> AnalysisTuple(<<>>, <<>>, <<>>)]
             ELSE [raised |-> "",
                   requests |-> IF out.code = Txt("404") THEN call \o <<Req("listModels")>> ELSE call,
                   ret |-> AnalysisTuple(Txt("API Error: ") \o out.code, <<>>, word)]
        ELSE IF out.kind = "url_error"
        THEN [raised |-> "", requests |-> call,
              ret |-> AnalysisTuple(Txt("Network Error: unreachable"), <<>>, word)]
        ELSE [raised |-> "", requests |-> call,
              ret |-> AnalysisTuple(Txt("Error: timed out"), <<>>, word)]

\* ------------------------------------------- generate_story_with_words

\* str.split("\n"): the lines of a text (one empty line for the empty text)
RECURSIVE SplitLines(_)
SplitLines(text) ==
    LET nl == {i \in 1..Len(text) : text[i] = "\n"}
    IN  IF nl = {} THEN <<text>>
        ELSE <<SubSeq(text, 1, Min(nl) - 1)>>
                \o SplitLines(SubSeq(text, Min(nl) + 1, Len(text)))

\* "\n".join(lines)
RECURSIVE JoinLines(_)
JoinLines(lines) ==
    IF lines = <<>> THEN <<>>
    ELSE IF Len(lines) = 1 THEN lines[1]
    ELSE lines[1] \o <<"\n">> \o JoinLines(Tail(lines))

HeaderPortuguese == Txt("linguagem detectada")

HeaderEnglish == Txt("detected language")

SeparatorStars == Txt("***")

SeparatorDashes == Txt("---")

\* a language detection header line
IsHeaderLine(line) ==
    Contains(Lower(line), HeaderPortuguese) \/ Contains(Lower(line), HeaderEnglish)

IsSeparatorLine(line) == Strip(line) \in {SeparatorStars, SeparatorDashes}

RECURSIVE CleanLinesGreedy(_, _)
\* the loop with skip_next left set by a separator line
CleanLinesGreedy(lines, skip_next) ==
    IF lines = <<>> THEN <<>>
    ELSE LET line == Head(lines)
         IN  IF IsHeaderLine(line) THEN CleanLinesGreedy(Tail(lines), TRUE)
             ELSE IF skip_next /\ (IsSeparatorLine(line) \/ Strip(line) = <<>>)
             THEN CleanLinesGreedy(Tail(lines), skip_next)
             ELSE <<line>> \o CleanLinesGreedy(Tail(lines), FALSE)

\* the loop over the lines (ai_client.py 458-469): the lines kept, from
\* `lines` on, with the flag skip_next as given
RECURSIVE CleanLines(_, _)
CleanLines(lines, skip_next) ==
    IF lines = <<>> THEN <<>>
    ELSE LET line == Head(lines)
         IN  IF IsHeaderLine(line) THEN CleanLines(Tail(lines), TRUE)
             ELSE IF skip_next /\ (IsSeparatorLine(line) \/ Strip(line) = <<>>)
             THEN CleanLines(Tail(lines), IF IsSeparatorLine(line) THEN FALSE ELSE skip_next)
             ELSE <<line>> \o CleanLines(Tail(lines), FALSE)

\* the cleanup with skip_next set from the start
CleanStorySkipFirst(story) == Strip(JoinLines(CleanLines(SplitLines(story), TRUE)))

\* the cleanup trimming every kept line
CleanStoryStripLines(story) ==
    LET kept == CleanLines(SplitLines(story), FALSE)
    IN  Strip(JoinLines([i \in 1..Len(kept) |-> Strip(kept[i])]))

\* the cleanup of the story text (ai_client.py 454-471)
CleanStory(story) == Strip(JoinLines(CleanLines(SplitLines(story), FALSE)))

\* the names ai_client.py imports (lines 1-6); the parsing-error handler
\* also uses os and datetime
AiClientImports == {"json", "logging", "re", "urllib.error", "urllib.request", "typing"}

\* str(list(d.keys())) of a dict, the keys in a fixed order
RECURSIVE KeysText(_)
KeysText(keys) ==
    IF keys = {} THEN <<>>
    ELSE LET k == CHOOSE k \in keys : TRUE
         IN  Txt("'") \o Txt(k) \o Txt("'")
                \o (IF keys = {k} THEN <<>> ELSE Txt(", ") \o KeysText(keys \ {k}))

KeyList(d) == Txt("[") \o KeysText(DOMAIN d.v) \o Txt("]")

\* the text the handler of a parsing error builds (ai_client.py 475-484);
\* it is reached with `result` a dict
ErrorDetails(result, exc) ==
    LET head == Txt("Parsing Error: ") \o Txt(exc) \o Txt("\n\nAPI Response Keys: ")
                    \o KeyList(result) \o Txt("\n\n")
        cands == result.v["candidates"]
        first == cands.v[1]
    IN  IF "candidates" \notin DOMAIN result.v THEN head
        ELSE IF JFalsy(cands) THEN head \o Txt("Candidates count: 0\n")
        ELSE head \o Txt("Candidates count: 1\n")
                \o Txt("Candidate keys: ") \o KeyList(first) \o Txt("\n")
                \o (IF "content" \in DOMAIN first.v
                    THEN Txt("Content keys: ") \o KeyList(first.v["content"]) \o Txt("\n")
                    ELSE <<>>)

\* the handler `except (KeyError, IndexError)` (ai_client.py 473-495) with
\* the names in `imports` bound in the module: [raised, ret].  log_ok: the
\* append to the log file succeeds.
ParsingErrorHandler(result, exc, imports, log_ok) ==
    LET error_details == ErrorDetails(result, exc)
    IN  IF "os" \notin imports \/ "datetime" \notin imports
        THEN [raised |-> "NameError", ret |-> <<>>]
        ELSE IF ~log_ok THEN [raised |-> "OSError", ret |-> <<>>]
        ELSE [raised |-> "",
              ret |-> Txt("Parsing Error\n\n") \o error_details
                        \o Txt("\n\nFull log saved to:\nlexiforge_error.log")]

\* a test of the words that never answers
NoWordsIgnored(words) == FALSE

\* `not words`
NoWords(words) == words = <<>>

NoWordsMessage == Txt("No words available to generate a story.")

StoryRet(ret, requests) == [raised |-> "", ret |-> ret, requests |-> requests]

\* generate_story_with_words(words, api_key, model, language, ...) under the
\* outcome `out` of its generateContent request: [raised, ret, requests]
generate_story_with_words(words, language, out) ==
    LET call == <<Req("generateContent")>>
        result == ResponseBody(out.shape, out.text)
        got == StoryTextOf(result)
        handled == ParsingErrorHandler(result, got.exc, AiClientImports, out.log_ok)
        generic(e) == StoryRet(Txt("Error generating story: ") \o Txt(e), call)
    IN  IF NoWords(words) THEN StoryRet(NoWordsMessage, <<>>)
        ELSE IF out.kind = "ok"
        THEN IF got.exc \in {"KeyError", "IndexError"}
             THEN IF handled.raised # "" THEN generic(handled.raised)
                  ELSE StoryRet(handled.ret, call)
             ELSE IF got.exc # "" THEN generic(got.exc)
             ELSE IF got.val.t # "str" THEN generic("AttributeError")
             ELSE StoryRet(CleanStory(got.val.v), call)
        ELSE IF out.kind = "http_error"
        THEN IF ~out.utf8
             THEN [raised |-> "UnicodeDecodeError", ret |-> <<>>, requests |-> call]
             ELSE StoryRet(Txt("API Error: ") \o out.code \o Txt("\n\n") \o Txt("{error body}"), call)
        ELSE IF out.kind = "url_error" THEN generic("URLError")
        ELSE generic("timed out")

\* ------------------------------------------------------ download_audio

RECURSIVE IntText(_)
\* str(n) for a natural number
IntText(n) == IF n < 10 THEN <<Digits[n + 1]>> ELSE IntText(n \div 10) \o <<Digits[(n % 10) + 1]>>

\* the audio bytes the speech endpoint answers a request for (q, tl) with
AudioBody(q, tl) == Txt("mp3:") \o q \o Txt(":") \o tl

\* What the speech request and the file write after it can do:
\*   "ok"          the body is read and written
\*   "net_error"   urlopen or response.read() raises
\*   "open_error"  open(output_path, "wb") raises; the file is untouched
\*   "write_error" the file is truncated by open and f.write raises part-way
TtsOutcomes == {"ok", "net_error", "open_error", "write_error"}

\* a lone surrogate code point, which a str may hold (json.loads yields it
\* for the escape \ud800) and which UTF-8 cannot encode
Surrogate == "U+D800"

\* str.encode("utf-8") succeeds on text
Encodable(text) == \A i \in 1..Len(text) : text[i] # Surrogate

\* download_audio(text, language_name, output_path) under outcome `out`:
\* [raised, ret, requests, written], written the content the file at
\* output_path is left with (NoneValue: the file is not touched).
download_audio(text, language_name, out) ==
    LET lang_code == get_lang_code(language_name)
        req == [Req("tts") EXCEPT !.q = text, !.tl = lang_code]
        data == AudioBody(text, lang_code)
    IN  IF ~Encodable(text)
        THEN \* urllib.parse.urlencode(params), before the try statement
             [raised |-> "UnicodeEncodeError", requests |-> <<>>,
              ret |-> FALSE, written |-> NoneValue]
        ELSE [raised |-> "",
              requests |-> <<req>>,
              ret |-> (out = "ok"),
              written |-> CASE out = "ok" -> data
                            [] out = "write_error" -> SubSeq(data, 1, Len(data) \div 2)
                            [] OTHER -> NoneValue]

\* _generate_audio_filename(target_word, source_lang) at time.time() = now
_generate_audio_filename(target_word, source_lang, now) ==
    LET safe_word == Strip(SelectSeq(target_word,
                        LAMBDA c : IsAlnum(c) \/ c \in {" ", "-", "_"}))
        lang_code == get_lang_code(source_lang)
    IN  Txt("lexiforge_") \o safe_word \o Txt("_") \o lang_code \o Txt("_")
            \o IntText(now) \o Txt(".mp3")

\* --------------------------------------------------- _update_note_fields

\* the note after _update_note_fields(note, result, word_field, def_field, ex_field)
_update_note_fields(note, result, m) ==
    LET n1 == IF result.base_form # <<>> /\ NoteHas(note, m.word_field)
              THEN NoteSet(note, m.word_field, result.base_form)
              ELSE note
        combined == result.definition \o Txt("<br><br>") \o result.examples
        n2 == IF m.def_field = m.ex_field
              THEN IF NoteHas(n1, m.def_field) THEN NoteSet(n1, m.def_field, combined) ELSE n1
              ELSE LET d == IF NoteHas(n1, m.def_field)
                            THEN NoteSet(n1, m.def_field, result.definition) ELSE n1
                   IN  IF NoteHas(d, m.ex_field)
                       THEN NoteSet(d, m.ex_field, result.examples) ELSE d
        tag == Txt("[sound:") \o result.audio_file \o Txt("]")
    IN  IF result.audio_file # NoneValue /\ result.audio_file # <<>>
        THEN IF NoteHas(n2, "Audio") THEN NoteSet(n2, "Audio", tag)
             ELSE IF NoteHas(n2, m.word_field)
             THEN NoteSet(n2, m.word_field, NoteGet(n2, m.word_field) \o Txt(" ") \o tag)
             ELSE n2
        ELSE n2

\* ============================================================ state

VARIABLES
    editorNote,   \* editor.note: the id of the note in the editor, or NoNote
    config,       \* the configuration get_config() returns
    notes,        \* the collection's notes, by id
    notes0,       \* the notes as they were before any generation
    clock,        \* int(time.time()), counted from the start
    media,        \* the media directory: content by file name
    gen,          \* the word-analysis generations, by slot
    lastClick,    \* what the last on_generate_click call did
    story,        \* a call of generate_story_with_words: arguments and result
    tts,          \* a call of download_audio: arguments, result and the file
    dlg,          \* the story dialog: widgets and the requests in flight
    mapCall,      \* a call of get_field_mapping: arguments and result
    parseCall,    \* a call of parse_response: the text and the result
    promptCall,   \* a prompt rendering of generate_content: arguments and prompt
    cfgStore      \* config.json, _CONFIG_CACHE and the dict a caller holds

genVars == <<editorNote, config, notes, notes0, clock, media, gen, lastClick>>

pureVars == <<mapCall, parseCall, promptCall, cfgStore>>

callVars == <<story, tts, pureVars>>

vars == <<genVars, callVars, dlg>>

\* ----------------------------------------------------------- bounds

\* generations that may be started (and run concurrently)
MaxGens == 2

\* notes in the collection
MaxNotes == 2

\* seconds the clock may advance
MaxClock == 1

Gens == 1..MaxGens

Notes == 1..MaxNotes

\* ----------------------------------------------------------- inputs

Field(name, value) == [name |-> name, value |-> value]

\* notes of the collection: two-field notes, notes with an Audio field,
\* three-field notes, an empty word, a note type without the default fields
NoteChoices ==
    {<<Field("Front", Txt("ran")), Field("Back", <<>>)>>,
     <<Field("Front", Txt("it's")), Field("Back", Txt("old")), Field("Audio", <<>>)>>,
     <<Field("Front", Txt("its")), Field("Back", <<>>), Field("Example", <<>>)>>,
     <<Field("Word", <<>>), Field("Meaning", <<>>)>>,
     <<Field("Word", Txt("ran")), Field("Meaning", <<>>), Field("Extra", <<>>)>>}

\* config.json contents
Configs ==
    {[api_key |-> Txt("k"), source_lang |-> Txt("Spanish")],
     [api_key |-> Txt("k"), source_lang |-> Txt("Auto"),
      field_mapping |-> [word_field |-> "Front", definition_field |-> "Back",
                         example_field |-> "Example"]],
     [api_key |-> Txt("YOUR_KEY_HERE"), source_lang |-> Txt("Spanish")],
     [api_key |-> <<>>, source_lang |-> Txt("Spanish")],
     [api_key |-> Txt("  "), source_lang |-> Txt("Spanish")],
     [api_key |-> NoneValue, source_lang |-> Txt("Spanish")],
     [source_lang |-> Txt("Spanish")],
     [k \in {} |-> <<>>]}

\* texts the model answers a word analysis with
AnalysisTexts ==
    {Txt("BASE_FORM: run\nDEFINITION: d1\nEXAMPLE: e1"),
     Txt("BASE_FORM: its\n**EXAMPLE:** e2"),
     Txt("DEFINITION: d3")}

\* outcomes of the generateContent request of a word analysis
AnalysisOutcomes ==
    {HttpOk("full", t) : t \in AnalysisTexts}
        \cup {HttpOk(s, <<>>) : s \in {"no_candidates", "no_parts", "array"}}
        \cup {HttpError(c, u) : c \in {Txt("404"), Txt("500")}, u \in BOOLEAN}
        \cup {UrlError, OtherException}

IdleGen ==
    [pc |-> "idle", note |-> NoNote, conf |-> [k \in {} |-> <<>>], word |-> <<>>,
     source_lang |-> <<>>, definition_lang |-> <<>>,
     outcome |-> "", content |-> AnalysisTuple(<<>>, <<>>, <<>>), filename |-> NoneValue,
     future |-> [raised |-> "", ret |-> [k \in {} |-> <<>>]],
     reqs |-> <<>>, shown |-> NoneValue, calls |-> <<>>]

\* no call of generate_story_with_words is modelled
IdleStory ==
    [pc |-> "unused", words |-> <<>>, language |-> <<>>, out |-> NoOutcome,
     raised |-> "", ret |-> <<>>, requests |-> <<>>]

\* no call of download_audio is modelled
IdleTts ==
    [pc |-> "unused", text |-> <<>>, language |-> <<>>, file0 |-> NoneValue,
     out |-> "", raised |-> "", ret |-> FALSE, requests |-> <<>>, file |-> NoneValue]

\* no story dialog is open
IdleDlg ==
    [open |-> FALSE, studied |-> <<>>, index |-> 0 - 1,
     generate_btn |-> FALSE, regenerate_btn |-> FALSE,
     story_text |-> [html |-> FALSE, v |-> <<>>],
     words |-> <<>>, current_story_generated |-> FALSE, reqs |-> <<>>]

\* no call of get_field_mapping is modelled
IdleMapCall ==
    [pc |-> "unused", note |-> <<>>, conf |-> [k \in {} |-> <<>>],
     ret |-> [word_field |-> "", def_field |-> "", ex_field |-> ""]]

\* no call of parse_response is modelled
IdleParseCall ==
    [pc |-> "unused", lines |-> <<>>,
     ret |-> [definition |-> <<>>, example |-> <<>>, base_form |-> <<>>]]

\* no prompt rendering is modelled
IdlePromptCall ==
    [pc |-> "unused", word |-> <<>>, source_lang |-> <<>>, definition_lang |-> <<>>,
     prompt |-> <<>>]

\* an absent value of a dict-valued slot, and a present one
Unset == [set |-> FALSE, data |-> [k \in {} |-> <<>>]]

Held(d) == [set |-> TRUE, data |-> d]

\* config.json: missing, not valid JSON, or holding a dict
FileMissing == [kind |-> "missing", data |-> [k \in {} |-> <<>>]]

FileInvalid == [kind |-> "invalid", data |-> [k \in {} |-> <<>>]]

FileJson(d) == [kind |-> "json", data |-> d]

\* the configuration is not modelled
IdleCfg ==
    [op |-> "unused", file |-> FileMissing, cache |-> Unset, held |-> Unset,
     ret |-> Unset, written |-> [k \in {} |-> <<>>], raised |-> ""]

PureUnused ==
    /\ mapCall = IdleMapCall /\ parseCall = IdleParseCall /\ promptCall = IdlePromptCall
    /\ cfgStore = IdleCfg

\* One generation at a time, over every note, configuration and outcome.
\* The editor is constructed without a note.
Init ==
    /\ notes \in [Notes -> NoteChoices]
    /\ notes0 = notes
    /\ config \in Configs
    /\ editorNote = NoNote
    /\ clock = 0
    /\ media = [f \in {} |-> <<>>]
    /\ gen = [g \in Gens |-> IdleGen]
    /\ lastClick = [outcome |-> "none", message |-> NoneValue]
    /\ story = IdleStory /\ tts = IdleTts /\ dlg = IdleDlg
    /\ PureUnused

\* ------------------------------------------------- word analysis

\* the host changes the note the editor shows
SetNote(n) ==
    /\ editorNote # n
    /\ editorNote' = n
    /\ UNCHANGED <<config, notes, notes0, clock, media, gen, lastClick, callVars, dlg>>

\* a second passes
Tick ==
    /\ clock < MaxClock
    /\ clock' = clock + 1
    /\ UNCHANGED <<editorNote, config, notes, notes0, media, gen, lastClick, callVars, dlg>>

\* on_generate_click(editor), up to run_in_background; g is the slot the
\* started generation takes
Click(g) ==
    /\ gen[g].pc = "idle"
    /\ \A h \in Gens : h < g => gen[h].pc # "idle"
    /\ IF editorNote = NoNote
       THEN \* get_field_mapping calls note.keys() on None
            /\ lastClick' = [outcome |-> "raised", message |-> Txt("AttributeError")]
            /\ gen' = gen
       ELSE LET note == notes[editorNote]
                conf == config
                m == get_field_mapping(note, conf)
                msg == ValidationMessage(TRUE, note, conf, m)
            IN  IF msg # NoneValue
                THEN /\ lastClick' = [outcome |-> "rejected", message |-> msg]
                     /\ gen' = gen
                ELSE /\ lastClick' = [outcome |-> "started", message |-> NoneValue]
                     /\ gen' = [gen EXCEPT ![g] =
                            [@ EXCEPT !.pc = "started",
                                      !.calls = <<"progress.start">>,
                                      !.note = editorNote,
                                      !.conf = conf,
                                      !.word = NoteGet(note, m.word_field),
                                      !.source_lang = DictGet(conf, "source_lang", Txt("English")),
                                      !.definition_lang =
                                          DictGet(conf, "definition_lang", Txt("English"))]]
    /\ UNCHANGED <<editorNote, config, notes, notes0, clock, media, callVars, dlg>>

ErrorResult(message) == [error |-> message]

Returned(ret) == [raised |-> "", ret |-> ret]

Raised(exc) == [raised |-> exc, ret |-> [k \in {} |-> <<>>]]

\* KeyRejected without the placeholder test
KeyRejectedNoPlaceholder(api_key) == Falsy(api_key)

\* the api-key test of _generate_content_and_audio
KeyRejected(api_key) ==
    IF Falsy(api_key) THEN TRUE ELSE Contains(api_key, Txt("YOUR_KEY"))

\* background_op: what the future holds when _generate_content_and_audio
\* ended as `r`; an exception becomes {"error": str(e)}
background_op(r) ==
    IF r.raised # "" THEN Returned(ErrorResult(Txt(r.raised))) ELSE r

\* how the generateContent request of a generation ended, as the claims
\* class it: "" while none was issued
OutcomeClass(out) ==
    IF out.kind = "ok" THEN (IF out.shape = "full" THEN "ok" ELSE "bad_shape")
    ELSE out.kind

\* background_op, first part: _generate_content_and_audio up to the return
\* of generate_content, whose request ends as `out`
BgGenerate(g, out) ==
    /\ gen[g].pc = "started"
    /\ LET api_key == DictGet(gen[g].conf, "api_key", NoneValue)
           r == generate_content(gen[g].word, gen[g].source_lang, api_key, out)
       IN  gen' = [gen EXCEPT ![g] =
               IF KeyRejected(api_key)
               THEN [@ EXCEPT !.pc = "bg_done",
                              !.future = background_op(Returned(ErrorResult(Txt(
                                  "Please configure your API Key in Tools -> LexiForge Settings"))))]
               ELSE IF r.raised # ""
               THEN [@ EXCEPT !.pc = "bg_done",
                              !.reqs = @ \o r.requests,
                              !.outcome = IF r.requests = <<>> THEN "" ELSE OutcomeClass(out),
                              !.future = background_op(Raised(r.raised))]
               ELSE [@ EXCEPT !.pc = "bg_audio",
                              !.reqs = @ \o r.requests,
                              !.outcome = OutcomeClass(out),
                              !.content = r.ret]]
    /\ UNCHANGED <<editorNote, config, notes, notes0, clock, media, lastClick, callVars, dlg>>

\* the pronunciation target taken to be the entered word always
TargetWordEntered(word, base_form) == word

\* the pronunciation target of _generate_content_and_audio
TargetWord(word, base_form) == IF base_form # <<>> THEN base_form ELSE word

\* the media directory after a file is left with `written`
WriteFile(dir, name, written) ==
    IF written = NoneValue THEN dir
    ELSE [f \in DOMAIN dir \cup {name} |-> IF f = name THEN written ELSE dir[f]]

\* background_op, second part: the audio file name, download_audio (whose
\* request and file write end as `out`) and the returned dict
BgAudio(g, out) ==
    /\ gen[g].pc = "bg_audio"
    /\ LET c == gen[g].content
           target_word == TargetWord(gen[g].word, c.base_form)
           filename == _generate_audio_filename(target_word, gen[g].source_lang, clock)
           d == download_audio(target_word, gen[g].source_lang, out)
       IN  /\ media' = WriteFile(media, filename, d.written)
           /\ gen' = [gen EXCEPT ![g] =
                  [@ EXCEPT !.pc = "bg_done",
                            !.reqs = @ \o d.requests,
                            !.filename = filename,
                            !.future =
                                IF d.raised # "" THEN background_op(Raised(d.raised))
                                ELSE background_op(Returned(
                                [definition |-> c.definition,
                                 examples |-> c.example,
                                 base_form |-> c.base_form,
                                 audio_file |-> IF d.ret THEN filename ELSE NoneValue,
                                 source_lang |-> gen[g].source_lang,
                                 definition_lang |-> gen[g].definition_lang]))]]
    /\ UNCHANGED <<editorNote, config, notes, notes0, clock, lastClick, callVars, dlg>>

\* the host calls of a callback that finishes the progress only once the
\* note is written
OnSuccessCallsFinishOnWrite(future) ==
    IF future.raised # "" \/ "error" \in DOMAIN future.ret
    THEN <<"showInfo">>
    ELSE <<"_update_note_fields", "progress.finish", "loadNote">>

\* the host calls on_success makes, in order (__init__.py 558-572)
OnSuccessCalls(future) ==
    <<"progress.finish">>
        \o (IF future.raised # "" \/ "error" \in DOMAIN future.ret
            THEN <<"showInfo">>
            ELSE <<"_update_note_fields", "loadNote">>)

\* CallbackNote reading editor.note when the callback runs
CallbackNoteFromEditor(g) == IF editorNote # NoNote THEN editorNote ELSE gen[g].note

\* the note on_success writes to: the `note` its closure captured at the click
CallbackNote(g) == gen[g].note

\* on_success(future), run on the main thread when background_op has ended
OnSuccess(g) ==
    /\ gen[g].pc = "bg_done"
    /\ LET future == gen[g].future
           result == future.ret
           n == CallbackNote(g)
       IN  IF future.raised # ""
           THEN /\ gen' = [gen EXCEPT ![g] =
                       [@ EXCEPT !.pc = "done",
                                 !.calls = @ \o OnSuccessCalls(future),
                                 !.shown = Txt("Error during generation: ") \o Txt(future.raised)]]
                /\ notes' = notes
           ELSE IF "error" \in DOMAIN result
           THEN /\ gen' = [gen EXCEPT ![g] =
                       [@ EXCEPT !.pc = "done",
                                 !.calls = @ \o OnSuccessCalls(future),
                                 !.shown = Txt("Error: ") \o result.error]]
                /\ notes' = notes
           ELSE /\ gen' = [gen EXCEPT ![g] =
                       [@ EXCEPT !.pc = "done", !.calls = @ \o OnSuccessCalls(future)]]
                /\ notes' = [notes EXCEPT ![n] =
                       _update_note_fields(notes[n], result,
                                           get_field_mapping(notes[n], gen[g].conf))]
    /\ UNCHANGED <<editorNote, config, notes0, clock, media, lastClick, callVars, dlg>>

Next ==
    \/ \E n \in Notes \cup {NoNote} : SetNote(n)
    \/ Tick
    \/ Click(1)
    \/ \E out \in AnalysisOutcomes : BgGenerate(1, out)
    \/ \E out \in TtsOutcomes : BgAudio(1, out)
    \/ OnSuccess(1)

Spec == Init /\ [][Next]_vars

\* ------------------------------------------ the progress indicator
\* One generation, on notes that pass or fail validation, with a usable and
\* an unusable key, over every outcome of the HTTP calls.  run_in_background
\* runs on_success on the main thread once background_op has ended; the
\* HTTP calls themselves need not end (tts_client.py 58 sets no timeout).

ProgressNotes ==
    {<<Field("Front", Txt("ran")), Field("Back", <<>>)>>,
     <<Field("Word", <<>>), Field("Meaning", <<>>)>>}

ProgressConfigs ==
    {[api_key |-> Txt("k"), source_lang |-> Txt("Spanish")],
     [api_key |-> Txt("  "), source_lang |-> Txt("Spanish")]}

InitProgress ==
    /\ notes \in [Notes -> ProgressNotes]
    /\ notes0 = notes
    /\ config \in ProgressConfigs
    /\ editorNote = NoNote
    /\ clock = 0
    /\ media = [f \in {} |-> <<>>]
    /\ gen = [g \in Gens |-> IdleGen]
    /\ lastClick = [outcome |-> "none", message |-> NoneValue]
    /\ story = IdleStory /\ tts = IdleTts /\ dlg = IdleDlg
    /\ PureUnused

SpecProgress == InitProgress /\ [][Next]_vars /\ WF_vars(OnSuccess(1))

\* ------------------------------------------- field mappings of a note
\* One generation at a time, with a valid key, over note types and field
\* mappings that pass validation: the mapped fields may coincide with one
\* another and with the Audio field.

UpdateNotes ==
    {<<Field("Front", Txt("ran")), Field("Back", <<>>), Field("Audio", <<>>)>>,
     <<Field("Word", Txt("ran")), Field("Audio", <<>>)>>,
     <<Field("Front", Txt("ran")), Field("Back", Txt("old"))>>}

UpdateConfigs ==
    {[api_key |-> Txt("k"), source_lang |-> Txt("Spanish")],
     [api_key |-> Txt("k"), source_lang |-> Txt("Spanish"),
      field_mapping |-> [word_field |-> "Front", definition_field |-> "Back",
                         example_field |-> "Audio"]],
     [api_key |-> Txt("k"), source_lang |-> Txt("Spanish"),
      field_mapping |-> [word_field |-> "Front", definition_field |-> "Front",
                         example_field |-> "Back"]]}

InitUpdate ==
    /\ notes \in [Notes -> UpdateNotes]
    /\ notes0 = notes
    /\ config \in UpdateConfigs
    /\ editorNote = NoNote
    /\ clock = 0
    /\ media = [f \in {} |-> <<>>]
    /\ gen = [g \in Gens |-> IdleGen]
    /\ lastClick = [outcome |-> "none", message |-> NoneValue]
    /\ story = IdleStory /\ tts = IdleTts /\ dlg = IdleDlg
    /\ PureUnused

SpecUpdate == InitUpdate /\ [][Next]_vars

\* ----------------------------------------- concurrent word analyses
\* Several generations in flight at once, on notes that pass validation,
\* with a valid key and over the outcomes that lead to a note update.

ConcurrentNotes ==
    {<<Field("Front", Txt("it's")), Field("Back", <<>>)>>,
     <<Field("Front", Txt("ran")), Field("Back", Txt("old")), Field("Audio", <<>>)>>}

ConcurrentOutcomes ==
    {HttpOk("full", Txt("BASE_FORM: its\nDEFINITION: d1")),
     HttpOk("full", Txt("DEFINITION: d2\nEXAMPLE: e2")),
     HttpError(Txt("500"), TRUE)}

ConcurrentTts == {"ok", "net_error"}

InitConcurrent ==
    /\ notes \in [Notes -> ConcurrentNotes]
    /\ notes0 = notes
    /\ config = [api_key |-> Txt("k"), source_lang |-> Txt("Spanish")]
    /\ editorNote = NoNote
    /\ clock = 0
    /\ media = [f \in {} |-> <<>>]
    /\ gen = [g \in Gens |-> IdleGen]
    /\ lastClick = [outcome |-> "none", message |-> NoneValue]
    /\ story = IdleStory /\ tts = IdleTts /\ dlg = IdleDlg
    /\ PureUnused

NextConcurrent ==
    \/ \E n \in Notes : SetNote(n)
    \/ Tick
    \/ \E g \in Gens : Click(g)
    \/ \E g \in Gens, out \in ConcurrentOutcomes : BgGenerate(g, out)
    \/ \E g \in Gens, out \in ConcurrentTts : BgAudio(g, out)
    \/ \E g \in Gens : OnSuccess(g)

SpecConcurrent == InitConcurrent /\ [][NextConcurrent]_vars

\* --------------------------------- calls of generate_story_with_words

\* no word analysis is modelled
AnalysisUnused ==
    /\ notes = [n \in Notes |-> <<Field("Front", <<>>), Field("Back", <<>>)>>]
    /\ notes0 = notes
    /\ config = [k \in {} |-> <<>>]
    /\ editorNote = NoNote
    /\ clock = 0
    /\ media = [f \in {} |-> <<>>]
    /\ gen = [g \in Gens |-> IdleGen]
    /\ lastClick = [outcome |-> "none", message |-> NoneValue]

StoryWordLists ==
    {<<>>, <<Txt("gato")>>, <<Txt("gato"), Txt("perro")>>}

StoryLanguages == {Txt("Auto"), Txt("auto"), Txt("Spanish")}

\* texts the model answers a story request with
StoryTexts ==
    {Txt("Title: T\n\nUn **gato**."),
     Txt("Detected language: Spanish\n***\nTitle: T\n\nUn gato."),
     Txt("Linguagem detectada: X\n\n---\nA\n---\nB\n"),
     <<>>}

\* outcomes of the generateContent request of a story
StoryOutcomes ==
    {HttpOk("full", t) : t \in StoryTexts}
        \cup {[HttpOk(s, <<>>) EXCEPT !.log_ok = l] :
                s \in ResponseShapes \ {"full"}, l \in BOOLEAN}
        \cup {HttpError(c, u) : c \in {Txt("404"), Txt("500")}, u \in BOOLEAN}
        \cup {UrlError, OtherException}

InitStory ==
    /\ AnalysisUnused
    /\ story \in {[IdleStory EXCEPT !.pc = "ready", !.words = w, !.language = l] :
                    w \in StoryWordLists, l \in StoryLanguages}
    /\ tts = IdleTts /\ dlg = IdleDlg
    /\ PureUnused

\* generate_story_with_words(words, ..., language, ...) is called and returns or raises
StoryCall(out) ==
    /\ story.pc = "ready"
    /\ LET r == generate_story_with_words(story.words, story.language, out)
       IN  story' = [story EXCEPT !.pc = "done",
                                  !.out = IF r.requests = <<>> THEN NoOutcome ELSE out,
                                  !.raised = r.raised, !.ret = r.ret,
                                  !.requests = r.requests]
    /\ UNCHANGED <<genVars, tts, dlg, pureVars>>

NextStory == \E out \in StoryOutcomes : StoryCall(out)

SpecStory == InitStory /\ [][NextStory]_vars

\* ------------------------------------------- calls of download_audio

TtsTexts == {<<>>, Txt(" "), Txt(" \n"), Txt("hola"), Txt("it's"), <<"a", Surrogate>>}

TtsLanguages == {Txt("Spanish"), Txt("spanish"), <<>>}

InitTts ==
    /\ AnalysisUnused
    /\ tts \in {[IdleTts EXCEPT !.pc = "ready", !.text = x, !.language = l,
                                !.file0 = f, !.file = f] :
                    x \in TtsTexts, l \in TtsLanguages, f \in {NoneValue, Txt("old")}}
    /\ story = IdleStory /\ dlg = IdleDlg
    /\ PureUnused

\* download_audio(text, language_name, output_path) is called and returns or raises
TtsCall(out) ==
    /\ tts.pc = "ready"
    /\ LET r == download_audio(tts.text, tts.language, out)
       IN  tts' = [tts EXCEPT !.pc = "done",
                              !.out = IF r.requests = <<>> THEN "" ELSE out,
                              !.raised = r.raised, !.ret = r.ret,
                              !.requests = r.requests,
                              !.file = IF r.written = NoneValue THEN @ ELSE r.written]
    /\ UNCHANGED <<genVars, story, dlg, pureVars>>

NextTts == \E out \in TtsOutcomes : TtsCall(out)

SpecTts == InitTts /\ [][NextTts]_vars

\* ------------------------------------------------ language names
\* download_audio called with every display name of the table and with
\* names that are not in it.

LanguageInputs ==
    {Txt(n) : n \in LANGUAGE_NAMES_TABLE}
        \cup {Lower(Txt(n)) : n \in LANGUAGE_NAMES_TABLE}
        \cup {Txt(n) \o Txt(" ") : n \in LANGUAGE_NAMES_TABLE}
        \cup {<<>>, Txt("en"), Txt("Klingon")}

InitLanguage ==
    /\ AnalysisUnused
    /\ tts \in {[IdleTts EXCEPT !.pc = "ready", !.text = x, !.language = l] :
                    x \in {Txt("hola"), Txt("it's")}, l \in LanguageInputs}
    /\ story = IdleStory /\ dlg = IdleDlg
    /\ PureUnused

SpecLanguage == InitLanguage /\ [][NextTts]_vars

\* ------------------------------------------ calls of get_field_mapping

\* no generation, story, speech call or dialog is modelled
OthersUnused == AnalysisUnused /\ story = IdleStory /\ tts = IdleTts /\ dlg = IdleDlg

\* the field names of the note types get_field_mapping is called on
MappingNoteTypes ==
    {<<>>, <<"Front">>, <<"Front", "Back">>, <<"Back", "Front">>, <<"Word", "Meaning">>,
     <<"Front", "Back", "Audio">>, <<"Word", "Meaning", "Example">>}

MappingKeys == {"word_field", "definition_field", "example_field"}

\* the name the settings hold for a key of field_mapping
MappingName(k) ==
    CASE k = "word_field" -> "Word"
      [] k = "definition_field" -> "Meaning"
      [] OTHER -> "Example"

\* configurations with every subset of the field_mapping entries, and
\* without field_mapping
MappingConfigs ==
    {[c \in {"api_key", "field_mapping"} |->
         IF c = "api_key" THEN Txt("k") ELSE [k \in ks |-> MappingName(k)]] :
        ks \in SUBSET MappingKeys}
      \cup {[c \in {"api_key"} |-> Txt("k")], [c \in {} |-> <<>>]}

InitMapping ==
    /\ OthersUnused
    /\ mapCall \in {[IdleMapCall EXCEPT !.pc = "ready",
                                        !.note = [i \in 1..Len(names) |-> Field(names[i], <<>>)],
                                        !.conf = c] :
                        names \in MappingNoteTypes, c \in MappingConfigs}
    /\ parseCall = IdleParseCall /\ promptCall = IdlePromptCall /\ cfgStore = IdleCfg

\* get_field_mapping(note, config) is called and returns
MappingCall ==
    /\ mapCall.pc = "ready"
    /\ mapCall' = [mapCall EXCEPT !.pc = "done",
                                  !.ret = get_field_mapping(mapCall.note, mapCall.conf)]
    /\ UNCHANGED <<genVars, story, tts, dlg, parseCall, promptCall, cfgStore>>

NextMapping == MappingCall

SpecMapping == InitMapping /\ [][NextMapping]_vars

\* --------------------------------------------- calls of parse_response

ParseLabels == {"BASE_FORM", "DEFINITION", "EXAMPLE"}

\* the label text searched for
LabelText(l) ==
    CASE l = "BASE_FORM" -> LabelBaseForm
      [] l = "DEFINITION" -> LabelDefinition
      [] OTHER -> LabelExample

\* the field of the returned tuple that belongs to a label
FieldOf(ret, l) ==
    CASE l = "BASE_FORM" -> ret.base_form
      [] l = "DEFINITION" -> ret.definition
      [] OTHER -> ret.example

\* the value the answers of the model give a label
LabelValue(l) ==
    CASE l = "BASE_FORM" -> Txt("run")
      [] l = "DEFINITION" -> Txt("to move")
      [] OTHER -> Txt("She runs.")

LineForms == {"absent", "plain", "empty", "bold", "star", "lower"}

\* the forms each label line takes in the answers of the model
FormsOf(l) ==
    CASE l = "BASE_FORM" -> {"absent", "plain", "empty", "bold"}
      [] l = "DEFINITION" -> {"absent", "plain", "empty", "star"}
      [] OTHER -> {"absent", "plain", "empty", "lower"}

\* the line of label l in a form
LabelLine(l, form) ==
    CASE form = "plain" -> LabelText(l) \o Txt(" ") \o LabelValue(l)
      [] form = "empty" -> LabelText(l)
      [] form = "bold"  -> Txt("**") \o LabelText(l) \o Txt("** ") \o LabelValue(l)
      [] form = "star"  -> Txt("*") \o LabelText(l) \o Txt("* ") \o LabelValue(l)
      [] OTHER -> Lower(LabelText(l)) \o Txt(" ") \o LabelValue(l)

\* the orders the three label lines come in
LabelOrders ==
    {o \in [1..3 -> ParseLabels] : \A i, j \in 1..3 : i # j => o[i] # o[j]}

\* the label lines of an answer: those present, in the order o
LabelLines(forms, o) ==
    LET present == SelectSeq(o, LAMBDA l : forms[l] # "absent")
    IN  [i \in 1..Len(present) |-> LabelLine(present[i], forms[present[i]])]

\* lines that begin with no label
FillerLines ==
    {Txt("Sure!"), Txt("MY_DEFINITION: x"), Txt("the EXAMPLE: y here"), Txt("***")}

\* lines with the line x put after the first k of them
InsertLine(lines, k, x) ==
    SubSeq(lines, 1, k) \o <<x>> \o SubSeq(lines, k + 1, Len(lines))

\* the answers parse_response is called on, as their lines
ParseInputs ==
    LET labelled == {LabelLines(f, o) :
                        f \in {g \in [ParseLabels -> LineForms] :
                                   \A l \in ParseLabels : g[l] \in FormsOf(l)},
                        o \in LabelOrders}
    IN  labelled
          \cup UNION {{InsertLine(ls, k, x) : k \in 0..Len(ls), x \in FillerLines} :
                         ls \in labelled}

InitParse ==
    /\ OthersUnused
    /\ parseCall \in {[IdleParseCall EXCEPT !.pc = "ready", !.lines = ls] : ls \in ParseInputs}
    /\ mapCall = IdleMapCall /\ promptCall = IdlePromptCall /\ cfgStore = IdleCfg

\* parse_response(text) is called on the text of the lines and returns
ParseCall ==
    /\ parseCall.pc = "ready"
    /\ parseCall' = [parseCall EXCEPT !.pc = "done",
                                      !.ret = parse_response(JoinLines(parseCall.lines))]
    /\ UNCHANGED <<genVars, story, tts, dlg, mapCall, promptCall, cfgStore>>

NextParse == ParseCall

SpecParse == InitParse /\ [][NextParse]_vars

\* -------------------------------- prompt renderings of generate_content

PromptWords == {Txt("gato"), Txt("Auto"), TokenWord, TokenSourceLang, TokenDefinitionLang}

PromptSourceLangs ==
    {Txt("Auto"), Txt("auto"), Txt("AUTO"), Txt("aUtO"), Txt(" Auto"), Txt("Spanish"),
     TokenWord, TokenDefinitionLang}

PromptDefinitionLangs ==
    {Txt("English"), TokenWord, TokenSourceLang, TokenDefinitionLang}

InitPrompt ==
    /\ OthersUnused
    /\ promptCall \in {[IdlePromptCall EXCEPT !.pc = "ready", !.word = w,
                                              !.source_lang = s, !.definition_lang = d] :
                           w \in PromptWords, s \in PromptSourceLangs,
                           d \in PromptDefinitionLangs}
    /\ mapCall = IdleMapCall /\ parseCall = IdleParseCall /\ cfgStore = IdleCfg

\* generate_content(word, source_lang, ..., definition_lang) renders its prompt
PromptCall ==
    /\ promptCall.pc = "ready"
    /\ promptCall' = [promptCall EXCEPT
                         !.pc = "done",
                         !.prompt = render_prompt(promptCall.word, promptCall.source_lang,
                                                  promptCall.definition_lang)]
    /\ UNCHANGED <<genVars, story, tts, dlg, mapCall, parseCall, cfgStore>>

NextPrompt == PromptCall

SpecPrompt == InitPrompt /\ [][NextPrompt]_vars

\* ------------------------------------------------ the story cleanup

\* the lines of the longest story text the cleanup is checked on
MaxStoryLines == 3

\* the lines the story texts are made of
StoryLineKinds ==
    {Txt("Detected language: es"), Txt("Linguagem detectada"), Txt("***"), Txt(" ---"),
     <<>>, Txt(" "), Txt("A"), Txt(" b ")}

CleanInputs == UNION {[1..n -> StoryLineKinds] : n \in 0..MaxStoryLines}

InitClean ==
    /\ AnalysisUnused
    /\ story = [IdleStory EXCEPT !.pc = "ready", !.words = <<Txt("gato")>>,
                                 !.language = Txt("Spanish")]
    /\ tts = IdleTts /\ dlg = IdleDlg
    /\ PureUnused

\* generate_story_with_words is answered with a story text of up to
\* MaxStoryLines lines
NextClean == \E lines \in CleanInputs : StoryCall(HttpOk("full", JoinLines(lines)))

SpecClean == InitClean /\ [][NextClean]_vars

\* ---------------------------------------- get_config and save_config
\* The settings dialog's use of the configuration: get_config(), assignments
\* to the returned dict, save_config(self.config).  Values are texts.

ConfigKeys == {"api_key", "model"}

ConfigValues == {Txt("a"), Txt("b")}

ConfigDicts ==
    {[k \in {} |-> <<>>], [api_key |-> Txt("a")], [api_key |-> Txt("b"), model |-> Txt("a")]}

\* outcomes of the file write of save_config: done, open() failing, the
\* write failing after open() truncated the file
SaveOutcomes == {"ok", "open_error", "write_error"}

\* what get_config reads from the file (__init__.py 68-75)
LoadFile(file) == IF file.kind = "json" THEN file.data ELSE [k \in {} |-> <<>>]

\* get_config(): the cache afterwards and the returned copy
get_config(cache, file) ==
    IF cache.set THEN [cache |-> cache, ret |-> cache.data]
    ELSE [cache |-> Held(LoadFile(file)), ret |-> LoadFile(file)]

\* save_config(config): the cache and the file afterwards, and the exception
save_config(conf, file, out) ==
    [cache |-> Held(conf),
     file |-> CASE out = "ok" -> FileJson(conf)
                [] out = "open_error" -> file
                [] OTHER -> FileInvalid,
     raised |-> IF out = "ok" THEN "" ELSE "OSError"]

DictSet(d, k, v) == [x \in DOMAIN d \cup {k} |-> IF x = k THEN v ELSE d[x]]

InitConfig ==
    /\ AnalysisUnused
    /\ story = IdleStory /\ tts = IdleTts /\ dlg = IdleDlg
    /\ mapCall = IdleMapCall /\ parseCall = IdleParseCall /\ promptCall = IdlePromptCall
    /\ \E f \in {FileMissing, FileInvalid} \cup {FileJson(d) : d \in ConfigDicts} :
           cfgStore = [IdleCfg EXCEPT !.op = "start", !.file = f, !.written = LoadFile(f)]

\* a caller calls get_config() and keeps the returned dict
GetConfig ==
    /\ cfgStore.op # "unused"
    /\ LET r == get_config(cfgStore.cache, cfgStore.file)
       IN  cfgStore' = [cfgStore EXCEPT !.op = "get_config", !.cache = r.cache,
                                        !.ret = Held(r.ret), !.held = Held(r.ret),
                                        !.raised = ""]
    /\ UNCHANGED <<genVars, story, tts, dlg, mapCall, parseCall, promptCall>>

\* the caller assigns to a key of the dict it holds
MutateHeld(k, v) ==
    /\ cfgStore.held.set
    /\ cfgStore' = [cfgStore EXCEPT !.op = "mutate",
                                    !.held = Held(DictSet(cfgStore.held.data, k, v))]
    /\ UNCHANGED <<genVars, story, tts, dlg, mapCall, parseCall, promptCall>>

\* the caller calls save_config with the dict it holds; the file write ends
\* as `out`
SaveConfig(out) ==
    /\ cfgStore.held.set
    /\ LET r == save_config(cfgStore.held.data, cfgStore.file, out)
       IN  cfgStore' = [cfgStore EXCEPT
                           !.op = "save_config", !.cache = r.cache, !.file = r.file,
                           !.raised = r.raised,
                           !.written = IF out = "ok" THEN cfgStore.held.data ELSE @]
    /\ UNCHANGED <<genVars, story, tts, dlg, mapCall, parseCall, promptCall>>

NextConfig ==
    \/ GetConfig
    \/ \E k \in ConfigKeys, v \in ConfigValues : MutateHeld(k, v)
    \/ \E out \in SaveOutcomes : SaveConfig(out)

SpecConfig == InitConfig /\ [][NextConfig]_vars

\* ------------------------------------------------------- StoryDialog

\* the story requests one dialog submits
MaxStoryRequests == 2

\* deck_combo's item data: None for "All Decks", then the deck ids
DeckItems == <<NoneValue, Txt("d1"), Txt("d2")>>

DeckIds == {DeckItems[i] : i \in 2..Len(DeckItems)}

RECURSIVE Distinct(_)
\* words in order, each once (`word not in words`)
Distinct(ws) ==
    IF ws = <<>> THEN <<>>
    ELSE LET init == Distinct(SubSeq(ws, 1, Len(ws) - 1))
             last == ws[Len(ws)]
         IN  IF last \in Range(init) THEN init ELSE Append(init, last)

\* get_studied_words_today(deck_id) over the cards studied today
get_studied_words_today(studied, deck_id) ==
    IF deck_id = NoneValue
    THEN Distinct(studied[DeckItems[2]] \o studied[DeckItems[3]])
    ELSE studied[deck_id]

\* the decks' studied words the dialog is opened over
StudiedChoices ==
    {[d \in DeckIds |-> IF d = Txt("d1") THEN a ELSE b] :
        a \in {<<>>, <<Txt("gato")>>}, b \in {<<>>, <<Txt("gato"), Txt("perro")>>}}

DialogConfigs ==
    {[k \in {"api_key", "source_lang"} |->
         IF k = "api_key" THEN Txt("k") ELSE Txt("Spanish")],
     [k \in {"api_key"} |-> Txt("k")],
     [k \in {"api_key"} |-> Txt("YOUR_KEY_HERE")],
     [k \in {} |-> <<>>]}

DialogOutcomes ==
    {HttpOk("full", Txt("Un **gato**.\nFin")), HttpOk("no_text", <<>>),
     HttpError(Txt("500"), TRUE), HttpError(Txt("500"), FALSE)}

\* the position of the closing ** of a match of \*\*([^*]+)\*\* at i, or 0
BoldEnd(s, i) ==
    IF i + 1 <= Len(s) /\ s[i] = "*" /\ s[i + 1] = "*"
    THEN LET stars == {j \in (i + 2)..Len(s) : s[j] = "*"}
         IN  IF stars = {} THEN 0
             ELSE LET j == Min(stars)
                  IN  IF j > i + 2 /\ j + 1 <= Len(s) /\ s[j + 1] = "*" THEN j ELSE 0
    ELSE 0

RECURSIVE BoldFrom(_, _)
\* re.sub(r'\*\*([^*]+)\*\*', r'<b>\1</b>', s) from position i on
BoldFrom(s, i) ==
    IF i > Len(s) THEN <<>>
    ELSE LET j == BoldEnd(s, i)
         IN  IF j > 0
             THEN Txt("<b>") \o SubSeq(s, i + 2, j - 1) \o Txt("</b>") \o BoldFrom(s, j + 2)
             ELSE <<s[i]>> \o BoldFrom(s, i + 1)

RECURSIVE ReplaceNewlines(_)
\* s.replace('\n', '<br>')
ReplaceNewlines(s) ==
    IF s = <<>> THEN <<>>
    ELSE (IF s[1] = "\n" THEN Txt("<br>") ELSE <<s[1]>>) \o ReplaceNewlines(Tail(s))

\* the HTML on_done shows for a story
StoryHtml(s) == ReplaceNewlines(BoldFrom(s, 1))

RECURSIVE JoinWords(_)
\* ', '.join(words)
JoinWords(ws) ==
    IF ws = <<>> THEN <<>>
    ELSE IF Len(ws) = 1 THEN ws[1]
    ELSE ws[1] \o Txt(", ") \o JoinWords(Tail(ws))

PlainText(v) == [html |-> FALSE, v |-> v]

\* on_deck_changed(index) on the dialog d
on_deck_changed(d, index) ==
    IF index < 0 THEN d
    ELSE LET words == get_studied_words_today(d.studied, DeckItems[index + 1])
             shown == IF words = <<>>
                      THEN [d EXCEPT !.generate_btn = FALSE, !.story_text = PlainText(<<>>)]
                      ELSE [d EXCEPT !.generate_btn = TRUE]
         IN  [shown EXCEPT !.regenerate_btn = FALSE, !.current_story_generated = FALSE]

\* StoryDialog(): the widgets as constructed, then load_decks()
NewStoryDialog(studied) ==
    on_deck_changed([IdleDlg EXCEPT !.open = TRUE, !.studied = studied, !.index = 0], 0)

\* a submitted call of generate(): the api key and language its closure holds
NewStoryRequest(source_lang) ==
    [pc |-> "submitted", source_lang |-> source_lang, words |-> <<>>,
     raised |-> "", ret |-> <<>>, sent |-> 0]

InitDialog ==
    /\ notes = [n \in Notes |-> <<Field("Front", <<>>), Field("Back", <<>>)>>]
    /\ notes0 = notes
    /\ config \in DialogConfigs
    /\ editorNote = NoNote
    /\ clock = 0
    /\ media = [f \in {} |-> <<>>]
    /\ gen = [g \in Gens |-> IdleGen]
    /\ lastClick = [outcome |-> "none", message |-> NoneValue]
    /\ story = IdleStory /\ tts = IdleTts
    /\ PureUnused
    /\ dlg \in {NewStoryDialog(s) : s \in StudiedChoices}

\* the user selects another deck: currentIndexChanged -> on_deck_changed
DeckChanged(index) ==
    /\ dlg.open /\ index # dlg.index
    /\ dlg' = on_deck_changed([dlg EXCEPT !.index = index], index)
    /\ UNCHANGED <<genVars, callVars>>

\* generate_story(), the slot of both buttons
generate_story ==
    LET api_key == DictGet(config, "api_key", NoneValue)
        words == get_studied_words_today(dlg.studied, DeckItems[dlg.index + 1])
        source_lang == DictGet(config, "source_lang", Txt("Auto"))
    IN  IF Falsy(api_key) \/ Contains(api_key, Txt("YOUR_KEY"))
        THEN dlg' = [dlg EXCEPT !.story_text = PlainText(
                 Txt("Please configure your API Key in Tools -> LexiForge Settings"))]
        ELSE IF words = <<>>
        THEN dlg' = [dlg EXCEPT !.words = words,
                                !.story_text = PlainText(Txt("No words found. Study some cards first!")),
                                !.regenerate_btn = FALSE]
        ELSE /\ Len(dlg.reqs) < MaxStoryRequests
             /\ dlg' = [dlg EXCEPT !.words = words,
                                   !.story_text = PlainText(
                                       Txt("Using ") \o IntText(Len(words)) \o Txt(" words\n\nWords: ")
                                       \o JoinWords(words) \o Txt("\n\nGenerating story...")),
                                   !.generate_btn = FALSE,
                                   !.regenerate_btn = FALSE,
                                   !.reqs = Append(@, NewStoryRequest(source_lang))]

\* a click on "Generate Story"
ClickGenerate ==
    /\ dlg.open /\ dlg.generate_btn
    /\ generate_story
    /\ UNCHANGED <<genVars, callVars>>

\* a click on "Regenerate": regenerate_story()
ClickRegenerate ==
    /\ dlg.open /\ dlg.regenerate_btn
    /\ generate_story
    /\ UNCHANGED <<genVars, callVars>>

\* the executor's thread runs generate(): it reads self.words and, unless
\* they are empty, sends the generateContent request
StoryStart(r) ==
    /\ r \in DOMAIN dlg.reqs /\ dlg.reqs[r].pc = "submitted"
    /\ LET words == dlg.words
           none == generate_story_with_words(words, dlg.reqs[r].source_lang, NoOutcome)
       IN  dlg' = [dlg EXCEPT !.reqs[r] =
                IF none.requests = <<>>
                THEN [@ EXCEPT !.pc = "finished", !.words = words,
                               !.raised = none.raised, !.ret = none.ret]
                ELSE [@ EXCEPT !.pc = "requesting", !.words = words, !.sent = 1]]
    /\ UNCHANGED <<genVars, callVars>>

\* the request of generate() ends as `out` and the future completes
StoryReply(r, out) ==
    /\ r \in DOMAIN dlg.reqs /\ dlg.reqs[r].pc = "requesting"
    /\ LET res == generate_story_with_words(dlg.reqs[r].words, dlg.reqs[r].source_lang, out)
       IN  dlg' = [dlg EXCEPT !.reqs[r] =
                [@ EXCEPT !.pc = "finished", !.raised = res.raised, !.ret = res.ret]]
    /\ UNCHANGED <<genVars, callVars>>

\* on_done(future), run on the main thread
StoryDone(r) ==
    /\ r \in DOMAIN dlg.reqs /\ dlg.reqs[r].pc = "finished"
    /\ dlg' = IF dlg.reqs[r].raised = ""
              THEN [dlg EXCEPT !.reqs[r].pc = "delivered",
                               !.story_text = [html |-> TRUE, v |-> StoryHtml(dlg.reqs[r].ret)],
                               !.generate_btn = TRUE,
                               !.regenerate_btn = TRUE,
                               !.current_story_generated = TRUE]
              ELSE [dlg EXCEPT !.reqs[r].pc = "delivered",
                               !.story_text = PlainText(Txt("Error: ") \o Txt(dlg.reqs[r].raised)),
                               !.generate_btn = TRUE,
                               !.regenerate_btn = FALSE]
    /\ UNCHANGED <<genVars, callVars>>

NextDialog ==
    \/ \E i \in 0..(Len(DeckItems) - 1) : DeckChanged(i)
    \/ ClickGenerate
    \/ ClickRegenerate
    \/ \E r \in 1..MaxStoryRequests : StoryStart(r)
    \/ \E r \in 1..MaxStoryRequests, out \in DialogOutcomes : StoryReply(r, out)
    \/ \E r \in 1..MaxStoryRequests : StoryDone(r)

SpecDialog == InitDialog /\ [][NextDialog]_vars

\* ============================================================ claims

\* the requests of kind k among reqs
CountKind(reqs, k) == Cardinality({i \in 1..Len(reqs) : reqs[i].kind = k})

\* the background operation of g has ended
BgEnded(g) == gen[g].pc \in {"bg_done", "done"}

\* the future of g holds an error outcome
ErrorOutcome(g) == gen[g].future.raised = "" /\ "error" \in DOMAIN gen[g].future.ret

\* C1: when the generateContent request of a word analysis ends in an HTTP
\* error status, a network failure or a response without
\* candidates[0].content.parts[0].text, the completion callback receives an
\* error outcome and no field of the note is modified.
C1_FailedRequestLeavesNote ==
    \A g \in Gens :
        (gen[g].pc = "done" /\ gen[g].outcome \in {"http_error", "url_error", "bad_shape"})
            => /\ ErrorOutcome(g)
               /\ notes[gen[g].note] = notes0[gen[g].note]

\* the api key of a configuration is missing, null, empty, whitespace-only
\* or holds the placeholder YOUR_KEY
BadKey(conf) ==
    \/ "api_key" \notin DOMAIN conf
    \/ conf.api_key = NoneValue
    \/ Strip(conf.api_key) = <<>>
    \/ Contains(conf.api_key, Txt("YOUR_KEY"))

\* the response body lacks candidates[0].content.parts[0].text
LacksStoryText(out) == out.kind = "ok" /\ out.shape # "full"

DiagnosticMarker == Txt("API Response Keys: ")

\* C2: when the story endpoint answers successfully with JSON that lacks
\* candidates[0].content.parts[0].text, generate_story_with_words returns the
\* detailed parsing diagnostic that lists the top-level response keys.
C2_DetailedDiagnostic ==
    (story.pc = "done" /\ story.requests # <<>> /\ LacksStoryText(story.out))
        => story.raised = "" /\ Contains(story.ret, DiagnosticMarker)

\* C3: download_audio called with an empty or whitespace-only text returns
\* False, issues no HTTP request and writes no file.
C3_EmptyTextRejected ==
    (tts.pc = "done" /\ Strip(tts.text) = <<>>)
        => tts.ret = FALSE /\ tts.requests = <<>> /\ tts.file = tts.file0

\* C4: generate_story_with_words never raises and always returns a string,
\* for every outcome of the HTTP request.
C4_StoryNeverRaises == story.pc = "done" => story.raised = ""

\* C5: download_audio never raises; every network or file-write failure
\* yields False, and it returns True only after the complete response body
\* has been written to the destination path.
C5_AudioResult ==
    tts.pc = "done" =>
        /\ tts.raised = ""
        /\ tts.out \in {"net_error", "open_error", "write_error"} => tts.ret = FALSE
        /\ tts.ret = TRUE =>
               tts.file = AudioBody(tts.requests[1].q, tts.requests[1].tl)
        /\ tts.out \in {"net_error", "open_error"} => tts.file = tts.file0

\* C6: with a missing, empty, whitespace-only or placeholder API key a
\* started generation issues no HTTP request, its background operation ends
\* without raising, in an error outcome, and it never reaches the audio step.
C6_BadKeyNoRequest ==
    \A g \in Gens :
        (gen[g].pc # "idle" /\ BadKey(gen[g].conf))
            => /\ gen[g].reqs = <<>>
               /\ gen[g].pc # "bg_audio"
               /\ BgEnded(g) => ErrorOutcome(g)
               /\ gen[g].pc = "done" =>
                      gen[g].shown # NoneValue /\ notes[gen[g].note] = notes0[gen[g].note]

\* a generation with a whitespace-only key, and one with the placeholder, has completed
C6_Witness ==
    \E g \in Gens :
        /\ gen[g].pc = "done"
        /\ "api_key" \in DOMAIN gen[g].conf
        /\ gen[g].conf.api_key = Txt("  ")
        /\ gen[g].shown = Txt("Error: ValueError")

StoryInFlight == {r \in DOMAIN dlg.reqs : dlg.reqs[r].pc = "requesting"}

\* C7: in the story dialog at most one story-generation request is in flight
\* at any time, under every interleaving of clicks, deck-selection changes
\* and request completions.
C7_OneStoryInFlight == Cardinality(StoryInFlight) <= 1

\* C8: any two word-analysis generations get distinct audio file names.
C8_DistinctFilenames ==
    \A g, h \in Gens :
        (g # h /\ gen[g].filename # NoneValue /\ gen[h].filename # NoneValue)
            => gen[g].filename # gen[h].filename

\* the completed generations that updated note n
UpdatersOf(n) ==
    {g \in Gens : gen[g].pc = "done" /\ gen[g].note = n /\ ~ErrorOutcome(g)}

\* C10: with generations for different notes in flight together, each
\* completion callback writes only to the note captured at its own click,
\* with the values of its own result: a note no completed generation was
\* started on is as it was, and a note one generation completed on holds that
\* generation's result, in whatever order the background operations end.
C10_OwnNoteOwnResult ==
    \A n \in Notes :
        /\ UpdatersOf(n) = {} => notes[n] = notes0[n]
        /\ \A g \in Gens :
               UpdatersOf(n) = {g} =>
                   notes[n] = _update_note_fields(notes0[n], gen[g].future.ret,
                                  get_field_mapping(notes0[n], gen[g].conf))

\* two generations on different notes overlapped; the one clicked second
\* completed first, with another result, while the editor showed the other note
C10_Witness ==
    /\ gen[1].pc = "bg_done" /\ gen[2].pc = "done"
    /\ gen[1].note # gen[2].note
    /\ ~ErrorOutcome(1) /\ ~ErrorOutcome(2)
    /\ gen[1].future.ret.definition # gen[2].future.ret.definition
    /\ editorNote = gen[1].note
    /\ notes[gen[2].note] # notes0[gen[2].note]
    /\ notes[gen[1].note] = notes0[gen[1].note]

\* the entry of field_mapping the configuration holds for key, or default
ConfiguredName(conf, key, default) ==
    IF "field_mapping" \in DOMAIN conf /\ key \in DOMAIN conf["field_mapping"]
    THEN conf["field_mapping"][key]
    ELSE default

\* C11: get_field_mapping returns (first field, second field, second field)
\* for every note with exactly two fields, whatever the configuration holds;
\* for every other note it returns the configured word, definition and
\* example field names, a missing entry defaulting to Front, Back, Back.
C11_FieldMapping ==
    mapCall.pc = "done" =>
        LET note == mapCall.note
            conf == mapCall.conf
            ret == mapCall.ret
        IN  IF Len(note) = 2
            THEN /\ ret.word_field = note[1].name
                 /\ ret.def_field = note[2].name
                 /\ ret.ex_field = note[2].name
            ELSE /\ ret.word_field = ConfiguredName(conf, "word_field", "Front")
                 /\ ret.def_field = ConfiguredName(conf, "definition_field", "Back")
                 /\ ret.ex_field = ConfiguredName(conf, "example_field", "Back")

\* a two-field note whose field names differ from the three configured names
C11_Witness ==
    /\ mapCall.pc = "done" /\ Len(mapCall.note) = 2
    /\ "field_mapping" \in DOMAIN mapCall.conf
    /\ DOMAIN mapCall.conf["field_mapping"] = MappingKeys
    /\ mapCall.ret = [word_field |-> "Back", def_field |-> "Front", ex_field |-> "Front"]

\* the line with every "*" removed
Unstarred(line) == RemoveChar(line, "*")

\* the line begins with the label, letter case and "*" aside
BeginsWithLabel(line, l) == LabelAt(Unstarred(line), LabelText(l), 1)

\* the label occurs somewhere in the text, letter case aside
LabelOccurs(text, l) == \E i \in 1..Len(text) : LabelAt(text, LabelText(l), i)

\* what follows, on its line, the occurrence of the label at i, trimmed
AfterLabel(line, l, i) == Strip(SubSeq(line, i + Len(LabelText(l)), Len(line)))

\* C12: the value parse_response returns for a label consists only of text
\* that follows the colon on the same line as that label: it is empty or the
\* trimmed rest of a line after an occurrence of the label, never the text
\* of a later line.
C12_SameLineOnly ==
    parseCall.pc = "done" =>
        \A l \in ParseLabels :
            \/ FieldOf(parseCall.ret, l) = <<>>
            \/ \E k \in 1..Len(parseCall.lines) :
                   LET line == Unstarred(parseCall.lines[k])
                   IN  \E i \in 1..Len(line) :
                           /\ LabelAt(line, LabelText(l), i)
                           /\ FieldOf(parseCall.ret, l) = AfterLabel(line, l, i)

\* C13: parse_response takes a field only from a line that begins with the
\* label: when no line begins with a label, its field is empty, also when
\* the label text stands in the middle of a line or ends a longer token.
C13_LineStartOnly ==
    parseCall.pc = "done" =>
        \A l \in ParseLabels :
            (\A k \in 1..Len(parseCall.lines) : ~BeginsWithLabel(parseCall.lines[k], l))
                => FieldOf(parseCall.ret, l) = <<>>

\* the lines without those that begin with a label other than l
WithoutOthers(lines, l) ==
    SelectSeq(lines, LAMBDA x : \A o \in ParseLabels \ {l} : ~BeginsWithLabel(x, o))

\* C14, absent labels: the field of a label that does not occur in the text
\* is the empty string.
C14_AbsentLabelEmpty ==
    parseCall.pc = "done" =>
        \A l \in ParseLabels :
            ~LabelOccurs(Unstarred(JoinLines(parseCall.lines)), l)
                => FieldOf(parseCall.ret, l) = <<>>

\* C14: parse_response returns for every text; the field of a label that
\* does not occur is the empty string, and the field of a label that occurs
\* is what it is when the lines of the other labels are absent.
C14_LabelsIndependent ==
    parseCall.pc = "done" =>
        \A l \in ParseLabels :
            IF ~LabelOccurs(Unstarred(JoinLines(parseCall.lines)), l)
            THEN FieldOf(parseCall.ret, l) = <<>>
            ELSE FieldOf(parseCall.ret, l) =
                     FieldOf(parse_response(JoinLines(WithoutOthers(parseCall.lines, l))), l)

\* each label begins exactly one line and no other line holds a label
EachLabelOnce(lines) ==
    /\ \A l \in ParseLabels :
           Cardinality({k \in 1..Len(lines) : BeginsWithLabel(lines[k], l)}) = 1
    /\ \A k \in 1..Len(lines) :
           (\A l \in ParseLabels : ~BeginsWithLabel(lines[k], l))
               => \A l \in ParseLabels : ~LabelOccurs(Unstarred(lines[k]), l)

\* the line that begins with label l
LineOf(lines, l) == lines[CHOOSE k \in 1..Len(lines) : BeginsWithLabel(lines[k], l)]

\* C15: for a text in which each label line occurs once, parse_response
\* returns the same tuple for every order of the three label lines and every
\* insertion of lines without a label: the tuple of the three label lines
\* alone in the order BASE_FORM, DEFINITION, EXAMPLE.
C15_OrderInsensitive ==
    (parseCall.pc = "done" /\ EachLabelOnce(parseCall.lines)) =>
        parseCall.ret =
            parse_response(JoinLines(<<LineOf(parseCall.lines, "BASE_FORM"),
                                       LineOf(parseCall.lines, "DEFINITION"),
                                       LineOf(parseCall.lines, "EXAMPLE")>>))

\* C16: parse_response is insensitive to markdown emphasis: the tuple of a
\* text is the tuple of the text with every "*" removed.
C16_MarkdownInsensitive ==
    parseCall.pc = "done" =>
        parseCall.ret = parse_response(Unstarred(JoinLines(parseCall.lines)))

\* an answer with a label in **...**, a label in *...* and a line ***, whose
\* fields are the values without any star
C16_Witness ==
    /\ parseCall.pc = "done"
    /\ \E k \in 1..Len(parseCall.lines) : parseCall.lines[k] = Txt("***")
    /\ \E k \in 1..Len(parseCall.lines) :
           parseCall.lines[k] = LabelLine("BASE_FORM", "bold")
    /\ \E k \in 1..Len(parseCall.lines) :
           parseCall.lines[k] = LabelLine("DEFINITION", "star")
    /\ parseCall.ret.base_form = LabelValue("BASE_FORM")
    /\ parseCall.ret.definition = LabelValue("DEFINITION")

PromptTokens == {TokenWord, TokenSourceLang, TokenDefinitionLang}

\* C17: for every word, source language and definition language the prompt
\* rendered from the default template, with or without the Auto prefix,
\* contains none of the tokens {{word}}, {{source_lang}}, {{definition_lang}}.
C17_NoTokenLeft ==
    promptCall.pc = "done" =>
        \A tok \in PromptTokens : ~Contains(promptCall.prompt, tok)

RECURSIVE FillSegments(_, _, _, _)
\* the pieces with the three values put in the places of the placeholders
FillSegments(segs, w, s, d) ==
    IF segs = <<>> THEN <<>>
    ELSE (CASE segs[1].tok = "" -> segs[1].lit
            [] segs[1].tok = "word" -> w
            [] segs[1].tok = "source_lang" -> s
            [] OTHER -> d)
            \o FillSegments(Tail(segs), w, s, d)

\* s.startswith(p)
StartsWith(s, p) == Len(p) <= Len(s) /\ SubSeq(s, 1, Len(p)) = p

\* C18: with source_lang equal to Auto in any letter case the prompt starts
\* with the language-detection instruction and every {{source_lang}} place
\* holds "the detected language"; for every other source_lang nothing is
\* prepended and the places hold source_lang.  The places hold each value as
\* the replacements made after its own leave it: {{source_lang}} and
\* {{definition_lang}} inside the word, {{definition_lang}} inside source_lang.
C18_AutoPrompt ==
    promptCall.pc = "done" =>
        LET auto == Lower(promptCall.source_lang) = Txt("auto")
            d == promptCall.definition_lang
            s == IF auto THEN DetectedLanguage
                 ELSE Replace(promptCall.source_lang, TokenDefinitionLang, d)
            w == Replace(Replace(promptCall.word, TokenSourceLang,
                                 IF auto THEN DetectedLanguage ELSE promptCall.source_lang),
                         TokenDefinitionLang, d)
        IN  /\ auto => StartsWith(promptCall.prompt, DetectionHead)
            /\ promptCall.prompt =
                   FillSegments(IF auto THEN AutoPrefixSegments \o DefaultTemplateSegments
                                ELSE DefaultTemplateSegments, w, s, d)
            /\ (auto /\ promptCall.word = Txt("gato") /\ d = Txt("English"))
                   => ~Contains(Lower(promptCall.prompt), Txt("auto"))

\* source_lang aUtO: the prompt starts with the instruction and names the
\* detected language where the template names the source language
C18_Witness ==
    /\ promptCall.pc = "done" /\ promptCall.source_lang = Txt("aUtO")
    /\ promptCall.word = Txt("gato") /\ promptCall.definition_lang = Txt("English")
    /\ StartsWith(promptCall.prompt,
                  DetectionHead \o Txt("gato' and use that language as the detected language.\n"))
    /\ Contains(promptCall.prompt, Txt("BASE_FORM: [base form in the detected language]"))

\* C19: generate_story_with_words called with an empty words list returns
\* the fixed no-words message and issues no HTTP request, whatever the other
\* arguments and the network would do.
C19_NoWordsNoRequest ==
    (story.pc = "done" /\ story.words = <<>>) =>
        /\ story.raised = ""
        /\ story.ret = Txt("No words available to generate a story.")
        /\ story.requests = <<>>

\* a call with no words and language Auto has returned
C19_Witness ==
    /\ story.pc = "done" /\ story.words = <<>> /\ story.language = Txt("Auto")
    /\ story.requests = <<>> /\ story.ret # <<>>

\* the speech requests among reqs
SpeechRequests(reqs) == SelectSeq(reqs, LAMBDA r : r.kind = "tts")

\* C20: in a word-analysis generation the speech request is made for the
\* parsed base form when it is non-empty and for the entered word otherwise,
\* in the configured source language, and the audio file name is derived
\* from that same pronunciation target.
C20_PronunciationTarget ==
    \A g \in Gens :
        (BgEnded(g) /\ gen[g].filename # NoneValue) =>
            LET base_form == gen[g].content.base_form
                target == IF base_form # <<>> THEN base_form ELSE gen[g].word
                speech == SpeechRequests(gen[g].reqs)
            IN  /\ Len(speech) <= 1
                /\ \A i \in 1..Len(speech) :
                       /\ speech[i].q = target
                       /\ speech[i].tl = get_lang_code(gen[g].source_lang)
                /\ \E now \in 0..MaxClock :
                       gen[g].filename =
                           _generate_audio_filename(target, gen[g].source_lang, now)

\* a generation whose answer held a base form other than the entered word:
\* speech was requested for the base form
C20_Witness ==
    \E g \in Gens :
        /\ gen[g].pc = "done" /\ gen[g].filename # NoneValue
        /\ gen[g].content.base_form # <<>>
        /\ gen[g].content.base_form # gen[g].word
        /\ Len(SpeechRequests(gen[g].reqs)) = 1
        /\ SpeechRequests(gen[g].reqs)[1].q = gen[g].content.base_form

\* a call of generate_story_with_words returned the cleaned story text
StoryCleaned == story.pc = "done" /\ story.out.kind = "ok" /\ story.raised = ""

\* C21: the story cleanup is idempotent: applied to its own output it
\* returns that output unchanged.
C21_CleanIdempotent == StoryCleaned => CleanStory(story.ret) = story.ret

\* a text with a header, a separator and blank lines was cleaned to less
C21_Witness ==
    /\ StoryCleaned
    /\ story.out.text = Txt("Detected language: es\n***\n b ")
    /\ story.ret = Txt("b")

IsBlankLine(line) == Strip(line) = <<>>

\* line i directly follows a dropped header: a header stands before it, only
\* blank lines stand between, and it is blank or a separator
FollowsHeader(lines, i) ==
    /\ IsBlankLine(lines[i]) \/ IsSeparatorLine(lines[i])
    /\ \E h \in 1..(i - 1) :
           /\ IsHeaderLine(lines[h])
           /\ \A j \in (h + 1)..(i - 1) : IsBlankLine(lines[j]) /\ ~IsHeaderLine(lines[j])

\* the lines that are neither a header nor directly follow a dropped header
KeptIndexes(lines) ==
    {i \in 1..Len(lines) : ~IsHeaderLine(lines[i]) /\ ~FollowsHeader(lines, i)}

RECURSIVE SortedSeq(_)
\* the members of a set of numbers in rising order
SortedSeq(S) == IF S = {} THEN <<>> ELSE <<Min(S)>> \o SortedSeq(S \ {Min(S)})

KeptLines(lines) ==
    LET idx == SortedSeq(KeptIndexes(lines))
    IN  [k \in 1..Len(idx) |-> lines[idx[k]]]

C23_KeptLinesVerbatim ==
    StoryCleaned =>
        story.ret = JoinLines(KeptLines(SplitLines(story.out.text)))

\* C23 amended: the kept lines appear in the output in their order, from the
\* first to the last non-blank one; each is unchanged but for whitespace at
\* the start of the first and at the end of the last, which the final trim
\* of the text removes.
C23_KeptLinesTrimmedEnds ==
    StoryCleaned =>
        LET kept == KeptLines(SplitLines(story.out.text))
            solid == {k \in 1..Len(kept) : ~IsBlankLine(kept[k])}
            out == SplitLines(story.ret)
        IN  IF solid = {} THEN story.ret = <<>>
            ELSE LET f == Min(solid)
                 IN  /\ Len(out) = Cardinality({k \in f..Len(kept) : \E s \in solid : k <= s})
                     /\ \A j \in 1..Len(out) :
                            /\ Strip(out[j]) = Strip(kept[f + j - 1])
                            /\ j \notin {1, Len(out)} => out[j] = kept[f + j - 1]
                            /\ j = 1 /\ Len(out) > 1 =>
                                   \E n \in 0..Len(kept[f]) :
                                       out[1] = SubSeq(kept[f], n + 1, Len(kept[f]))
                            /\ j = Len(out) /\ Len(out) > 1 =>
                                   \E n \in 0..Len(kept[f + j - 1]) :
                                       out[j] = SubSeq(kept[f + j - 1], 1, n)

\* three kept lines with spaces around them: the middle one is unchanged,
\* the first and the last lost their outer spaces
C23_Witness ==
    /\ StoryCleaned
    /\ story.out.text = Txt(" b \n b \n b ")
    /\ story.ret = Txt("b \n b \n b")

\* a mapped field is absent from the note, or the word field is empty
FieldAbsentOrWordEmpty(note, conf) ==
    LET m == get_field_mapping(note, conf)
    IN  \/ \E f \in {m.word_field, m.def_field, m.ex_field} : ~NoteHas(note, f)
        \/ NoteGet(note, m.word_field) = <<>>

\* C24: on_generate_click starts no background generation, issues no HTTP
\* request and modifies no note field when a mapped word, definition or
\* example field is absent from the note or when the word field is empty.
C24_InvalidNoteNothingStarted ==
    [][(/\ editorNote # NoNote
        /\ FieldAbsentOrWordEmpty(notes[editorNote], config)
        /\ lastClick' # lastClick)
           => /\ lastClick'.outcome = "rejected"
              /\ gen' = gen /\ notes' = notes /\ media' = media]_vars

\* a click on a note of a type without the mapped fields was rejected, and
\* no generation was ever started
C24_Witness ==
    /\ editorNote # NoNote
    /\ FieldAbsentOrWordEmpty(notes[editorNote], config)
    /\ lastClick.outcome = "rejected"
    /\ lastClick.message = Txt("Error: The following fields are missing in this note type")
    /\ \A g \in Gens : gen[g].pc = "idle" /\ gen[g].reqs = <<>>
    /\ notes = notes0

\* C28: on_generate_click invoked while the editor has no note shows the
\* 'Please select a note.' message and returns without raising and without
\* starting a background operation.
C28_NoNoteMessage ==
    [][(editorNote = NoNote /\ lastClick' # lastClick)
           => /\ lastClick' = [outcome |-> "rejected", message |-> Txt("Please select a note.")]
              /\ gen' = gen]_vars

\* the places where `sub` stands in `s`
Occurrences(s, sub) ==
    {i \in 1..(Len(s) - Len(sub) + 1) : SubSeq(s, i, i + Len(sub) - 1) = sub}

\* the word field of a note under the configuration
WordFieldOf(note) == get_field_mapping(note, config).word_field

\* C26: for a note without an Audio field, after any sequence of completed
\* generations on it, the word field holds at most one [sound:...] tag.
C26_AtMostOneSoundTag ==
    \A n \in Notes :
        (~NoteHas(notes[n], "Audio") /\ \A g \in Gens : gen[g].pc \in {"idle", "done"})
            => Cardinality(Occurrences(NoteGet(notes[n], WordFieldOf(notes[n])),
                                       Txt("[sound:"))) <= 1

\* a generation ended without an error message and wrote its note
Updated(g) == gen[g].pc = "done" /\ gen[g].shown = NoneValue

\* C27: after _update_note_fields ran with a non-error result, the
\* definition field of the note contains the generated definition and its
\* example field contains the generated example, for every field mapping
\* that passes validation, with or without an audio file.
C27_DefinitionAndExampleWritten ==
    \A g \in Gens :
        Updated(g) =>
            LET note == notes[gen[g].note]
                m == get_field_mapping(note, gen[g].conf)
                result == gen[g].future.ret
            IN  /\ Contains(NoteGet(note, m.def_field), result.definition)
                /\ Contains(NoteGet(note, m.ex_field), result.examples)

\* the display names of the language table, as texts
TableNames == {Txt(n) : n \in LANGUAGE_NAMES_TABLE}

\* C25: get_lang_code returns a non-empty code for every display name of the
\* language table and "en" for every name that is not in the table, the
\* empty string and names differing from an entry only in letter case
\* included; it never fails.  The code is read off the speech request.
C25_LangCodeTotal ==
    (tts.pc = "done")
        => /\ tts.raised = "" /\ Len(tts.requests) = 1
           /\ tts.language \in TableNames => tts.requests[1].tl # <<>>
           /\ tts.language \notin TableNames => tts.requests[1].tl = Txt("en")

\* the name "portuguese", which differs from an entry in letter case only,
\* gave "en"; so did the empty name
C25_Witness ==
    /\ tts.pc = "done"
    /\ tts.language \in {Txt("portuguese"), <<>>}
    /\ tts.requests[1].tl = Txt("en")

\* C29: after any sequence of get_config and save_config calls, with failing
\* file writes and callers assigning to a returned dict, the value
\* get_config returns equals the configuration last successfully written to
\* config.json, or the file's content at first load ({} when missing or
\* invalid).
C29_GetReturnsLastWritten ==
    cfgStore.op = "get_config" => cfgStore.ret.data = cfgStore.written

\* how often generation g made the host call `name`
CallCount(g, name) ==
    Cardinality({i \in 1..Len(gen[g].calls) : gen[g].calls[i] = name})

\* progress.start once from the click on, no progress.finish before the
\* callback, exactly one by its end and before the note is written; the
\* background operation ends with a result
ProgressOrder(g) ==
    LET calls == gen[g].calls
    IN  /\ gen[g].pc = "idle" => calls = <<>>
        /\ gen[g].pc # "idle" => CallCount(g, "progress.start") = 1 /\ calls[1] = "progress.start"
        /\ gen[g].pc \in {"started", "bg_audio", "bg_done"} => CallCount(g, "progress.finish") = 0
        /\ gen[g].pc = "done" => CallCount(g, "progress.finish") = 1
        /\ \A i \in 1..Len(calls) :
               calls[i] = "_update_note_fields" => \E j \in 1..(i - 1) : calls[j] = "progress.finish"
        /\ BgEnded(g) => gen[g].future.raised = "" /\ DOMAIN gen[g].future.ret # {}
        /\ (gen[g].note # NoNote /\ notes[gen[g].note] # notes0[gen[g].note])
               => CallCount(g, "_update_note_fields") = 1

\* C30: every on_generate_click that passes validation calls progress.start
\* exactly once and, after its background operation ends, progress.finish
\* exactly once, before any note field is written; the background operation
\* always ends with a result and never raises, whatever the outcome of the
\* HTTP calls.
C30_ProgressStartFinish ==
    /\ [](\A g \in Gens : ProgressOrder(g))
    /\ \A g \in Gens :
           (gen[g].pc = "bg_done") ~> (gen[g].pc = "done" /\ CallCount(g, "progress.finish") = 1)

\* a generation whose download raised inside background_op has ended: the
\* progress was started and finished once, and the error was shown
C30_Witness ==
    \E g \in Gens :
        /\ gen[g].pc = "done"
        /\ gen[g].reqs # <<>> /\ ErrorOutcome(g)
        /\ gen[g].calls = <<"progress.start", "progress.finish", "showInfo">>
====
